---- MODULE Spec2Model ----
(***************************************************************************)
(* MeowLogger modular core (src/modular_core.py): the file watcher, the    *)
(* two storage backends and the engine with its statistics.                *)
(*                                                                         *)
(* Text is a sequence of one-character strings.  Identifiers that the      *)
(* source spells with a spurious leading underscore (`for _line in ...`    *)
(* followed by `line.strip()`) are read as the identifier they stand for.  *)
(***************************************************************************)
EXTENDS Integers, Sequences, FiniteSets, TLC

\* ------------------------------------------------------------------ bounds
MaxThreads == 2      \* poll-loop threads that start() may have spawned
MaxEnvOps == 2       \* appends / truncations by the external writer
LifeEnvOps == 1      \* the same, in the start/stop specification
MaxCalls == 4        \* handler invocations recorded
MaxHandlers == 2     \* add_handler calls
MaxStores == 4       \* store calls on the storage backends
MaxCap == 2          \* largest MemoryStorage capacity tried
MaxBackups == 2      \* largest FileStorage backup_count tried
MaxLimit == 4        \* largest retrieve limit tried
MaxCallers == 2      \* threads that call log()
MaxLogs == 3         \* log() calls
FaultEnvOps == 2     \* malformed lines written and permission changes
IoEnvOps == 3        \* files appended to, removed and locked under the poll loop
MaxWatches == 2      \* watch() calls
MaxProcessors == 3   \* length of MeowLogger.processors

\* ------------------------------------------------------------- file system
Paths == {"a.log", "b.log"}
\* Both files are in the directory "logs"; the directory "empty" holds nothing.
Dirs == {"logs", "empty"}
Threads == 1 .. MaxThreads
Callers == 1 .. MaxCallers
HandlerKinds == {"ok", "bad"}
Chunks == { <<"a", "\n">>, <<" ", "\n", " ", "b", "\n">> }
InitialData == { <<"z", "\n">> }

VARIABLES
  fs,              \* path -> [exists, data, readable]: the files the watcher tails
  gen,             \* path -> number of truncations so far (history)
  wsize,           \* path -> length of the prefix present at the latest watch_file (history)
  envOps,          \* remaining external-writer operations
  watched_files,   \* FileWatcher.watched_files, in insertion order
  handlers,        \* FileWatcher.handlers
  running,         \* FileWatcher.running
  thread_,         \* FileWatcher._thread (0: None)
  mainpc,          \* the caller of start()/stop(): "idle" or "join"
  lastJoin,        \* outcome of the latest stop(): "none", "exited", "timeout" (history)
  pc,              \* thread -> position in _watch_loop ("none": no such thread)
  files_to_check,  \* thread -> the snapshot taken under the lock
  idx,             \* thread -> index in files_to_check
  current_size,    \* thread -> os.path.getsize result
  new_lines,       \* thread -> f.readlines() result
  li,              \* thread -> index of the line being dispatched
  hi,              \* thread -> index of the next handler for that line
  rdmark,          \* thread -> Len(calls) at its latest read (history)
  shrunk,          \* thread -> the path its latest stat found shrunk, or "" (history)
  calls            \* handler invocations, in order (history)

watcherVars == << fs, gen, wsize, envOps, watched_files, handlers, running, thread_,
                  mainpc, lastJoin, pc, files_to_check, idx, current_size,
                  new_lines, li, hi, rdmark, shrunk, calls >>

VARIABLES
  entries,         \* MemoryStorage.entries (the deque), oldest first
  max_entries,     \* MemoryStorage: the deque's maxlen
  log_file,        \* FileStorage: the primary file, [exists, lines]
  backups,         \* FileStorage: number i -> the file `log_file.i`
  max_size,        \* FileStorage.max_size
  backup_count,    \* FileStorage.backup_count
  clock,           \* datetime.now(), as a counter
  memHist,         \* every entry passed to MemoryStorage.store, in call order (history)
  fileHist,        \* every entry FileStorage.store wrote, in call order (history)
  posix,           \* does os.rename replace an existing target (POSIX) or raise (Windows)?
  denied,          \* do open, os.rename and os.remove on the log files raise OSError?
  raisedOut,       \* has a FileStorage call raised to its caller? (history)
  swallowed        \* the store calls that hit an exception: << timestamp, exception >> (history)

storageVars == << entries, max_entries, log_file, backups, max_size, backup_count,
                  clock, memHist, fileHist, posix, denied, raisedOut, swallowed >>

VARIABLES
  storage,         \* MeowLogger.storage: "memory" or "file"
  processors,      \* MeowLogger.processors, as processor class names
  stats,           \* MeowLogger.stats (without start_time)
  lpc,             \* caller -> where it is in log(); "none": it makes no calls
  entry_,          \* caller -> the entry of its log() call
  tmp,             \* caller -> the count it loaded for a statistics update
  pidx,            \* caller -> index into the detected patterns
  created,         \* caller -> the level its entry was created with (history)
  counted,         \* caller -> the by_level key it wrote (history)
  logHist          \* the log() calls that returned, in order (history)

engineVars == << storage, processors, stats, lpc, entry_, tmp, pidx, created, counted,
                 logHist >>

VARIABLES
  _lock,           \* FileStorage._lock: "" when free, else the call that holds it
  spc,             \* the thread calling FileStorage.store: its position in store
  sentry,          \* the entry that call is storing
  rpc,             \* the thread calling FileStorage.retrieve: its position in retrieve
  returned,        \* what its latest retrieve returned
  committed,       \* the primary file as of the latest moment no store was in progress (history)
  atomic           \* the results the retrieve in progress could return if no store were
                   \* ever seen half-done (history)

lockVars == << _lock, spc, sentry, rpc, returned, committed, atomic >>

VARIABLES
  watchHist,       \* the watch() calls so far: [path, raised], in order (history)
  stable,          \* caller -> it is inside log() and no set_storage has run since it entered (history)
  ref              \* caller -> the backend it has loaded from self.storage, "" when none

apiVars == << watchHist, stable, ref, lockVars >>

vars == << watcherVars, storageVars, engineVars, apiVars >>

\* ------------------------------------------------------------ text helpers
IsSpace(c) == c \in {" ", "\n", "\t", "\r"}

RECURSIVE lstrip(_)
lstrip(s) == IF s # <<>> /\ IsSpace(Head(s)) THEN lstrip(Tail(s)) ELSE s

RECURSIVE rstrip(_)
rstrip(s) == IF s # <<>> /\ IsSpace(s[Len(s)]) THEN rstrip(SubSeq(s, 1, Len(s) - 1)) ELSE s

strip(s) == rstrip(lstrip(s))

\* The text with its line terminator removed and nothing else.
chomp(s) == IF s # <<>> /\ s[Len(s)] = "\n" THEN SubSeq(s, 1, Len(s) - 1) ELSE s

\* f.seek(from); f.readlines(): each line keeps its terminator; pos is the
\* byte offset of the line's first character.
RECURSIVE ReadFrom(_, _, _)
ReadFrom(data, start, i) ==
  IF i > Len(data)
    THEN IF start < Len(data)
           THEN << [text |-> SubSeq(data, start + 1, Len(data)), pos |-> start] >>
           ELSE << >>
    ELSE IF data[i] = "\n"
           THEN << [text |-> SubSeq(data, start + 1, i), pos |-> start] >>
                  \o ReadFrom(data, i, i + 1)
           ELSE ReadFrom(data, start, i + 1)

readlines(data, from) == ReadFrom(data, from, from + 1)

\* ------------------------------------------------------------ watch set
Watched(wf) == { wf[i].path : i \in 1 .. Len(wf) }

PosOf(wf, p) == LET i == CHOOSE j \in 1 .. Len(wf) : wf[j].path = p IN wf[i].pos

\* dict assignment watched_files[p] = n: a present key keeps its place.
SetPos(wf, p, n) ==
  IF p \in Watched(wf)
    THEN [i \in 1 .. Len(wf) |-> IF wf[i].path = p THEN [path |-> p, pos |-> n] ELSE wf[i]]
    ELSE Append(wf, [path |-> p, pos |-> n])

\* ------------------------------------------------------------------- Init
\* No thread is inside a FileStorage call.
InitLock ==
  /\ _lock = ""
  /\ spc = "idle"
  /\ sentry = << >>
  /\ rpc = "idle"
  /\ returned = << >>
  /\ committed = [exists |-> FALSE, lines |-> << >>]
  /\ atomic = {}

InitWatcher ==
  /\ \E d \in InitialData :
       fs = [p \in Paths |-> IF p = "a.log" THEN [exists |-> TRUE, data |-> d, readable |-> TRUE]
                                            ELSE [exists |-> FALSE, data |-> << >>, readable |-> TRUE]]
  /\ gen = [p \in Paths |-> 0]
  /\ wsize = [p \in Paths |-> 0]
  /\ watched_files = << >>
  /\ handlers = << >>
  /\ running = FALSE
  /\ thread_ = 0
  /\ mainpc = "idle"
  /\ lastJoin = "none"
  /\ pc = [t \in Threads |-> "none"]
  /\ files_to_check = [t \in Threads |-> << >>]
  /\ idx = [t \in Threads |-> 0]
  /\ current_size = [t \in Threads |-> 0]
  /\ new_lines = [t \in Threads |-> << >>]
  /\ li = [t \in Threads |-> 0]
  /\ hi = [t \in Threads |-> 0]
  /\ rdmark = [t \in Threads |-> 0]
  /\ shrunk = [t \in Threads |-> ""]
  /\ calls = << >>
  /\ watchHist = << >>
  /\ stable = [t \in Callers |-> FALSE]
  /\ ref = [t \in Callers |-> ""]
  /\ InitLock

\* ------------------------------------------------------- external writer
\* Another process appends a chunk of complete lines to an existing file.
AppendChunk(p, c) ==
  /\ envOps > 0
  /\ fs[p].exists
  /\ fs' = [fs EXCEPT ![p].data = @ \o c]
  /\ envOps' = envOps - 1
  /\ UNCHANGED << apiVars, engineVars, storageVars, gen, wsize, watched_files, handlers, running, thread_, mainpc, lastJoin,
                  pc, files_to_check, idx, current_size, new_lines, li, hi, rdmark, shrunk, calls >>

\* Another process truncates an existing non-empty file (rotation).
Truncate(p) ==
  /\ envOps > 0
  /\ fs[p].exists
  /\ fs[p].data # << >>
  /\ fs' = [fs EXCEPT ![p].data = << >>]
  /\ gen' = [gen EXCEPT ![p] = @ + 1]
  /\ wsize' = [wsize EXCEPT ![p] = 0]
  /\ envOps' = envOps - 1
  /\ UNCHANGED << apiVars, engineVars, storageVars, watched_files, handlers, running, thread_, mainpc, lastJoin,
                  pc, files_to_check, idx, current_size, new_lines, li, hi, rdmark, shrunk, calls >>

\* Another process removes a file.
Remove(p) ==
  /\ envOps > 0
  /\ fs[p].exists
  /\ fs' = [fs EXCEPT ![p] = [exists |-> FALSE, data |-> << >>, readable |-> TRUE]]
  /\ envOps' = envOps - 1
  /\ UNCHANGED << apiVars, engineVars, storageVars, gen, wsize, watched_files, handlers, running, thread_, mainpc, lastJoin,
                  pc, files_to_check, idx, current_size, new_lines, li, hi, rdmark, shrunk, calls >>

\* Another process takes the read permission of a file away.
Deny(p) ==
  /\ envOps > 0
  /\ fs[p].exists
  /\ fs[p].readable
  /\ fs' = [fs EXCEPT ![p].readable = FALSE]
  /\ envOps' = envOps - 1
  /\ UNCHANGED << apiVars, engineVars, storageVars, gen, wsize, watched_files, handlers, running, thread_, mainpc, lastJoin,
                  pc, files_to_check, idx, current_size, new_lines, li, hi, rdmark, shrunk, calls >>

\* ------------------------------------------------------------ FileWatcher
add_handler(k) ==
  /\ thread_ = 0
  /\ Len(handlers) < MaxHandlers
  /\ handlers' = Append(handlers, k)
  /\ UNCHANGED << apiVars, engineVars, storageVars, fs, gen, wsize, envOps, watched_files, running, thread_, mainpc, lastJoin,
                  pc, files_to_check, idx, current_size, new_lines, li, hi, rdmark, shrunk, calls >>

watch_file(p) ==
  /\ IF fs[p].exists
       THEN /\ watched_files' = SetPos(watched_files, p, Len(fs[p].data))
            /\ wsize' = [wsize EXCEPT ![p] = Len(fs[p].data)]
       ELSE UNCHANGED << watched_files, wsize >>
  /\ UNCHANGED << apiVars, engineVars, storageVars, fs, gen, envOps, handlers, running, thread_, mainpc, lastJoin,
                  pc, files_to_check, idx, current_size, new_lines, li, hi, rdmark, shrunk, calls >>

FreeThreads == { t \in Threads : pc[t] = "none" }

start ==
  /\ mainpc = "idle"
  /\ IF ~running
       THEN /\ FreeThreads # {}
            /\ LET t == CHOOSE u \in FreeThreads : \A v \in FreeThreads : u <= v
               IN /\ running' = TRUE
                  /\ pc' = [pc EXCEPT ![t] = "while"]
                  /\ thread_' = t
       ELSE UNCHANGED << running, pc, thread_ >>
  /\ UNCHANGED << apiVars, engineVars, storageVars, fs, gen, wsize, envOps, watched_files, handlers, mainpc, lastJoin,
                  files_to_check, idx, current_size, new_lines, li, hi, rdmark, shrunk, calls >>

\* stop(), up to the join: clears the flag; joins only when a thread was ever started.
stop ==
  /\ mainpc = "idle"
  /\ running' = FALSE
  /\ mainpc' = IF thread_ # 0 THEN "join" ELSE "idle"
  /\ UNCHANGED << apiVars, engineVars, storageVars, fs, gen, wsize, envOps, watched_files, handlers, thread_, lastJoin,
                  pc, files_to_check, idx, current_size, new_lines, li, hi, rdmark, shrunk, calls >>

\* join(timeout = 2 * poll_interval) returns: the thread has exited, or the
\* timeout has elapsed while the thread is still inside an iteration.
stop_join ==
  /\ mainpc = "join"
  /\ mainpc' = "idle"
  /\ lastJoin' = IF pc[thread_] = "none" THEN "exited" ELSE "timeout"
  /\ UNCHANGED << apiVars, engineVars, storageVars, fs, gen, wsize, envOps, watched_files, handlers, running, thread_,
                  pc, files_to_check, idx, current_size, new_lines, li, hi, rdmark, shrunk, calls >>

\* ------------------------------------------------------------ _watch_loop
while_test_Always == TRUE

\* The test of `while self.running`
while_test == running

\* `while self.running`
loop_while(t) ==
  /\ pc[t] = "while"
  /\ pc' = [pc EXCEPT ![t] = IF while_test THEN "snapshot" ELSE "none"]
  /\ shrunk' = [shrunk EXCEPT ![t] = ""]
  /\ UNCHANGED << apiVars, engineVars, storageVars, fs, gen, wsize, envOps, watched_files, handlers, running,
                  thread_, mainpc, lastJoin, files_to_check, idx, current_size, new_lines,
                  li, hi, rdmark, calls >>

\* The end of the `for file_path, last_position` body for file number i of
\* the snapshot: on to the next file, or time.sleep and the `while` test
\* again, where the iteration's locals are dead and are dropped.
NextFile(t, snapshot, i) ==
  IF i + 1 > Len(snapshot)
    THEN /\ pc' = [pc EXCEPT ![t] = "while"]
         /\ idx' = [idx EXCEPT ![t] = 0]
         /\ files_to_check' = [files_to_check EXCEPT ![t] = << >>]
         /\ current_size' = [current_size EXCEPT ![t] = 0]
    ELSE /\ pc' = [pc EXCEPT ![t] = "stat"]
         /\ idx' = [idx EXCEPT ![t] = i + 1]
         /\ files_to_check' = [files_to_check EXCEPT ![t] = snapshot]
         /\ current_size' = current_size

\* `with self._lock: files_to_check = list(self.watched_files.items())`
loop_snapshot(t) ==
  /\ pc[t] = "snapshot"
  /\ NextFile(t, watched_files, 0)
  /\ shrunk' = [shrunk EXCEPT ![t] = ""]
  /\ UNCHANGED << apiVars, engineVars, storageVars, fs, gen, wsize, envOps, watched_files, handlers, running,
                  thread_, mainpc, lastJoin, new_lines, li, hi, rdmark, calls >>

\* os.path.exists, os.path.getsize and the comparison with last_position.
\* shrunk records the file this step found smaller than last_position.
loop_stat(t) ==
  /\ pc[t] = "stat"
  /\ LET f == files_to_check[t][idx[t]] IN
       IF fs[f.path].exists /\ Len(fs[f.path].data) > f.pos
         THEN /\ current_size' = [current_size EXCEPT ![t] = Len(fs[f.path].data)]
              /\ pc' = [pc EXCEPT ![t] = "read"]
              /\ shrunk' = [shrunk EXCEPT ![t] = ""]
              /\ UNCHANGED << idx, files_to_check >>
         ELSE /\ NextFile(t, files_to_check[t], idx[t])
              /\ shrunk' = [shrunk EXCEPT ![t] =
                              IF fs[f.path].exists /\ Len(fs[f.path].data) < f.pos
                                THEN f.path ELSE ""]
  /\ UNCHANGED << apiVars, engineVars, storageVars, fs, gen, wsize, envOps, watched_files, handlers, running,
                  thread_, mainpc, lastJoin, new_lines, li, hi, rdmark, calls >>

\* Does open(file_path) raise?  FileNotFoundError or PermissionError.
OpenRaises(p) == ~fs[p].exists \/ ~fs[p].readable

FileError_EndsLoop(t) ==
  /\ pc' = [pc EXCEPT ![t] = "none"]
  /\ idx' = [idx EXCEPT ![t] = 0]
  /\ files_to_check' = [files_to_check EXCEPT ![t] = << >>]
  /\ current_size' = [current_size EXCEPT ![t] = 0]

\* `except Exception as e: print(...)` of the file's try block: the loop
\* goes on with the next file of the snapshot.
FileError(t) == NextFile(t, files_to_check[t], idx[t])

\* open, f.seek(last_position), f.readlines().  Each line also records the
\* truncation count, whether it lies in the prefix present at the latest
\* watch_file call, and the number of handlers registered (history fields).
\* open() raises when the file is gone or may not be read; the `except
\* Exception` of the file's try block prints, and the loop goes on with the
\* next file.
loop_read(t) ==
  /\ pc[t] = "read"
  /\ LET f == files_to_check[t][idx[t]]
         ls == readlines(fs[f.path].data, f.pos)
     IN IF OpenRaises(f.path)
          THEN /\ FileError(t)
               /\ UNCHANGED << new_lines, li, hi, rdmark >>
          ELSE /\ new_lines' = [new_lines EXCEPT ![t] =
                                  [k \in 1 .. Len(ls) |->
                                     [text |-> ls[k].text, pos |-> ls[k].pos, gen |-> gen[f.path],
                                      old |-> ls[k].pos < wsize[f.path], nh0 |-> Len(handlers)]]]
               /\ li' = [li EXCEPT ![t] = 1]
               /\ hi' = [hi EXCEPT ![t] = 1]
               /\ rdmark' = [rdmark EXCEPT ![t] = Len(calls)]
               /\ pc' = [pc EXCEPT ![t] = "dispatch"]
               /\ UNCHANGED << files_to_check, idx, current_size >>
  /\ shrunk' = [shrunk EXCEPT ![t] = ""]
  /\ UNCHANGED << apiVars, engineVars, storageVars, fs, gen, wsize, envOps, watched_files, handlers, running,
                  thread_, mainpc, lastJoin, calls >>

RECURSIVE Seek_FirstOnly(_, _, _, _)
Seek_FirstOnly(lines, l, h, nh) ==
  IF l > Len(lines) THEN << l, 1 >>
  ELSE IF strip(lines[l].text) = << >> \/ h > nh \/ h > 1
         THEN Seek_FirstOnly(lines, l + 1, 1, nh)
  ELSE << l, h >>

\* The next (line, handler) pair the nested loops reach from (l, h): lines
\* that strip() empties are skipped, and so is a line whose handlers are done.
RECURSIVE Seek(_, _, _, _)
Seek(lines, l, h, nh) ==
  IF l > Len(lines) THEN << l, 1 >>
  ELSE IF strip(lines[l].text) = << >> \/ h > nh THEN Seek(lines, l + 1, 1, nh)
  ELSE << l, h >>

AfterRaise_Abort(l, h) == [pc |-> "update", li |-> l, hi |-> h]

\* What the loop does when handler number h raised: `except Exception` around
\* the call prints and goes on with the next handler of the same line.
AfterRaise(l, h) == [pc |-> "dispatch", li |-> l, hi |-> h + 1]

\* One handler call `handler(file_path, line)` with its try/except, or the
\* end of the `for line in new_lines` loop.
loop_dispatch(t) ==
  /\ pc[t] = "dispatch"
  /\ LET f == files_to_check[t][idx[t]]
         at == Seek(new_lines[t], li[t], hi[t], Len(handlers))
     IN IF at[1] > Len(new_lines[t])
          THEN /\ pc' = [pc EXCEPT ![t] = "update"]
               /\ li' = [li EXCEPT ![t] = at[1]]
               /\ hi' = [hi EXCEPT ![t] = 1]
               /\ calls' = calls
          ELSE /\ Len(calls) < MaxCalls
               /\ LET ln == new_lines[t][at[1]]
                      bad == handlers[at[2]] = "bad"
                      nxt == IF bad THEN AfterRaise(at[1], at[2])
                                    ELSE [pc |-> "dispatch", li |-> at[1], hi |-> at[2] + 1]
                  IN /\ calls' = Append(calls,
                                   [t |-> t, rd |-> rdmark[t], l |-> at[1], h |-> at[2],
                                    path |-> f.path,
                                    line |-> strip(ln.text), raw |-> ln.text,
                                    pos |-> ln.pos, gen |-> ln.gen, old |-> ln.old,
                                    raised |-> bad])
                     /\ pc' = [pc EXCEPT ![t] = nxt.pc]
                     /\ li' = [li EXCEPT ![t] = nxt.li]
                     /\ hi' = [hi EXCEPT ![t] = nxt.hi]
  /\ shrunk' = [shrunk EXCEPT ![t] = ""]
  /\ UNCHANGED << apiVars, engineVars, storageVars, fs, gen, wsize, envOps, watched_files, handlers, running,
                  thread_, mainpc, lastJoin, files_to_check, idx, current_size, new_lines,
                  rdmark >>

\* `with self._lock: self.watched_files[file_path] = current_size`; the lines
\* read are dead from here on and are dropped.
loop_update(t) ==
  /\ pc[t] = "update"
  /\ watched_files' = SetPos(watched_files, files_to_check[t][idx[t]].path, current_size[t])
  /\ NextFile(t, files_to_check[t], idx[t])
  /\ new_lines' = [new_lines EXCEPT ![t] = << >>]
  /\ li' = [li EXCEPT ![t] = 0]
  /\ hi' = [hi EXCEPT ![t] = 0]
  /\ shrunk' = [shrunk EXCEPT ![t] = ""]
  /\ UNCHANGED << apiVars, engineVars, storageVars, fs, gen, wsize, envOps, handlers, running, thread_, mainpc,
                  lastJoin, rdmark, calls >>

\* ------------------------------------------------------------ more text
LowerCase == << "a", "b", "c", "d", "e", "f", "g", "h", "i", "j", "k", "l", "m",
                "n", "o", "p", "q", "r", "s", "t", "u", "v", "w", "x", "y", "z" >>

UpperCase == << "A", "B", "C", "D", "E", "F", "G", "H", "I", "J", "K", "L", "M",
                "N", "O", "P", "Q", "R", "S", "T", "U", "V", "W", "X", "Y", "Z" >>

IndexIn(c, alphabet) ==
  IF \E i \in 1 .. Len(alphabet) : alphabet[i] = c
    THEN CHOOSE i \in 1 .. Len(alphabet) : alphabet[i] = c
    ELSE 0

\* The letter of the other case, for each letter that has one.
LowerOf == [c \in { UpperCase[i] : i \in 1 .. Len(UpperCase) } |-> LowerCase[IndexIn(c, UpperCase)]]

UpperOf == [c \in { LowerCase[i] : i \in 1 .. Len(LowerCase) } |-> UpperCase[IndexIn(c, LowerCase)]]

\* str.lower() and str.upper()
lower(s) == [i \in 1 .. Len(s) |-> IF s[i] \in DOMAIN LowerOf THEN LowerOf[s[i]] ELSE s[i]]

upper(s) == [i \in 1 .. Len(s) |-> IF s[i] \in DOMAIN UpperOf THEN UpperOf[s[i]] ELSE s[i]]

\* `needle in hay`
Contains(needle, hay) ==
  \E i \in 0 .. Len(hay) - Len(needle) : SubSeq(hay, i + 1, i + Len(needle)) = needle

Reversed_Forward(seq) == seq

\* reversed(seq)
Reversed(seq) == [i \in 1 .. Len(seq) |-> seq[Len(seq) + 1 - i]]

\* seq[first:] with Python's treatment of a negative or too large index
SliceFrom(seq, first) ==
  LET n == Len(seq)
      b == IF first < 0 THEN (IF n + first < 0 THEN 0 ELSE n + first)
                        ELSE (IF first > n THEN n ELSE first)
  IN SubSeq(seq, b + 1, n)

INFO == << "I", "N", "F", "O" >>
DEBUG == << "D", "E", "B", "U", "G" >>
ERROR == << "E", "R", "R", "O", "R" >>
WARNING == << "W", "A", "R", "N", "I", "N", "G" >>

\* --------------------------------------------------------------- LogEntry
\* file_path None is "None"; extra_data None is [none |-> TRUE]; a dict is a
\* function from its keys to values, each value a sequence of strings.
NoExtra == [none |-> TRUE, d |-> << >>]

Dict(d) == [none |-> FALSE, d |-> d]

LogEntry(ts, level, message, file_path, extra_data) ==
  [timestamp |-> ts, level |-> level, message |-> message, file_path |-> file_path,
   extra_data |-> extra_data]

\* filters.get(key) is falsy for an absent key and for an empty value: both
\* are the empty value here.
NoFilters == [level |-> << >>, search |-> << >>, file_path |-> ""]

\* ---------------------------------------------------------- MemoryStorage
DequeAppend_NoEvict(dq, cap, e) == Append(dq, e)

\* deque(maxlen = cap).append(e): a full deque drops its oldest element.
DequeAppend(dq, cap, e) ==
  IF cap = 0 THEN << >>
  ELSE IF Len(dq) >= cap THEN Append(SubSeq(dq, Len(dq) - cap + 2, Len(dq)), e)
  ELSE Append(dq, e)

MemoryStorage_store(e) ==
  /\ entries' = DequeAppend(entries, max_entries, e)
  /\ memHist' = Append(memHist, e)

MemMatches_NoLevel(entry, filters) ==
  /\ filters.search # << >> => Contains(lower(filters.search), lower(entry.message))
  /\ filters.file_path # "" => entry.file_path = filters.file_path

\* The three filter tests in the loop body of MemoryStorage.retrieve.
MemMatches(entry, filters) ==
  /\ filters.level # << >> => entry.level = filters.level
  /\ filters.search # << >> => Contains(lower(filters.search), lower(entry.message))
  /\ filters.file_path # "" => entry.file_path = filters.file_path

RECURSIVE MemScan(_, _, _, _)
MemScan(rev, filters, limit, results) ==
  IF rev = << >> THEN results
  ELSE IF MemMatches(Head(rev), filters)
         THEN LET r == Append(results, Head(rev))
              IN IF Len(r) >= limit THEN r ELSE MemScan(Tail(rev), filters, limit, r)
         ELSE MemScan(Tail(rev), filters, limit, results)

MemoryStorage_retrieve(filters, limit) == MemScan(Reversed(entries), filters, limit, << >>)

\* ------------------------------------------------------------ FileStorage
Absent == [exists |-> FALSE, lines |-> << >>]

BackupSlots == 1 .. (MaxBackups + 1)

\* json.dumps raises TypeError on a value that is not JSON-serializable.
Serializable(e) ==
  \A k \in DOMAIN e.extra_data.d : e.extra_data.d[k] # << "<object>" >>

\* json.dumps(entry.to_dict()) + "\n": one line of the file.  Its size in
\* bytes grows with the texts it carries.
ToJson(e) ==
  [json |-> TRUE,
   size |-> Len(e.level) + Len(e.message) + 1,
   data |-> [timestamp |-> e.timestamp, level |-> e.level, message |-> e.message,
             file_path |-> e.file_path, extra_data |-> e.extra_data]]

\* json.loads and the LogEntry built from it (for a line that parses).
FromJson(line) ==
  LogEntry(line.data.timestamp, line.data.level, line.data.message,
           line.data.file_path, line.data.extra_data)

RECURSIVE FileSize(_)
FileSize(lines) == IF lines = << >> THEN 0 ELSE Head(lines).size + FileSize(Tail(lines))

\* The loop of _rotate, from i down to 1: `.i` becomes `.(i + 1)`.
RECURSIVE ShiftBackups(_, _)
ShiftBackups(bk, i) ==
  IF i < 1 THEN bk
  ELSE ShiftBackups(IF bk[i].exists THEN [bk EXCEPT ![i + 1] = bk[i], ![i] = Absent] ELSE bk,
                    i - 1)

Rotate_Copy(lf, bk, n) == << lf, [ShiftBackups(bk, n - 1) EXCEPT ![1] = lf] >>

\* _rotate when every rename succeeds: the files after it, as
\* << primary, backups >>.
Rotate(lf, bk, n) == << Absent, [ShiftBackups(bk, n - 1) EXCEPT ![1] = lf] >>

\* _rotate: each os.remove and os.rename sits in a try/except that only
\* logs.  All of them raise when access is denied, and the rename of the
\* primary onto an existing `.1` raises where os.rename does not replace.
_rotate(lf, bk, n) ==
  IF denied THEN << lf, bk >>
  ELSE IF ~posix /\ ShiftBackups(bk, n - 1)[1].exists THEN << lf, ShiftBackups(bk, n - 1) >>
  ELSE Rotate(lf, bk, n)

Propagates_Reraise(exc) == exc # "none"

\* `except Exception: return` of store and `except Exception: return []` of
\* retrieve: no exception leaves the call.
Propagates(exc) == FALSE

\* The exception raised inside store after the rotation check: by open, or
\* by json.dumps once the file is open.
WriteError(e) ==
  IF denied THEN "OSError" ELSE IF ~Serializable(e) THEN "TypeError" ELSE "none"

FileStorage_store(e) ==
  LET rot == log_file.exists /\ FileSize(log_file.lines) > max_size
      r == IF rot THEN _rotate(log_file, backups, backup_count) ELSE << log_file, backups >>
  IN /\ backups' = r[2]
     /\ raisedOut' = (raisedOut \/ Propagates(WriteError(e)))
     /\ swallowed' = IF WriteError(e) = "none" THEN swallowed
                     ELSE Append(swallowed, << e.timestamp, WriteError(e) >>)
     /\ IF WriteError(e) = "none"
          THEN /\ log_file' = [exists |-> TRUE, lines |-> Append(r[1].lines, ToJson(e))]
               /\ fileHist' = Append(fileHist, e)
          ELSE IF WriteError(e) = "TypeError"
          THEN \* open(..., "a") has created the file; json.dumps raised
               /\ log_file' = [exists |-> TRUE, lines |-> r[1].lines]
               /\ fileHist' = fileHist
          ELSE \* open raised
               /\ log_file' = r[1]
               /\ fileHist' = fileHist

_matches_filters(entry, filters) ==
  /\ ~(filters.level # << >> /\ entry.level # filters.level)
  /\ ~(filters.search # << >> /\ ~Contains(lower(filters.search), lower(entry.message)))
  /\ ~(filters.file_path # "" /\ entry.file_path # filters.file_path)

RECURSIVE FileScan(_, _, _, _)
FileScan(rev, filters, limit, results) ==
  IF rev = << >> THEN results
  ELSE IF Head(rev).json /\ _matches_filters(FromJson(Head(rev)), filters)
         THEN LET r == Append(results, FromJson(Head(rev)))
              IN IF Len(r) >= limit THEN r ELSE FileScan(Tail(rev), filters, limit, r)
         ELSE FileScan(Tail(rev), filters, limit, results)

\* The exception raised inside retrieve by open(..., "rb").
ReadError == IF log_file.exists /\ denied THEN "OSError" ELSE "none"

\* The body of retrieve's `with open(...)` for a file of these lines.
ScanLines(lines, filters, limit) ==
  FileScan(Reversed(SliceFrom(lines, -(limit * 2))), filters, limit, << >>)

FileStorage_retrieve(filters, limit) ==
  IF ~log_file.exists THEN << >>
  ELSE IF ReadError # "none" THEN << >>
  ELSE ScanLines(log_file.lines, filters, limit)

\* --------------------------------------------------- storage, called directly
codeExtra == Dict([k \in {"code"} |-> << "500" >>])

objExtra == Dict([k \in {"obj"} |-> << "<object>" >>])

okMsg == << "o", "k" >>

diskMsg == << "D", "i", "s", "k", " ", "F", "u", "l", "l" >>

\* The entries handed to store, stamped with the clock; the third one
\* carries a value json.dumps cannot serialize.
SampleEntries ==
  { LogEntry(clock, INFO, okMsg, "None", NoExtra),
    LogEntry(clock, ERROR, diskMsg, "a.log", codeExtra),
    LogEntry(clock, INFO, diskMsg, "None", objExtra) }

StoreInMemory(e) ==
  /\ clock < MaxStores
  /\ clock' = clock + 1
  /\ MemoryStorage_store(e)
  /\ UNCHANGED << apiVars, engineVars, watcherVars, max_entries, log_file, backups, max_size, backup_count,
                  fileHist, posix, denied, raisedOut, swallowed >>

StoreInFile(e) ==
  /\ clock < MaxStores
  /\ clock' = clock + 1
  /\ FileStorage_store(e)
  /\ UNCHANGED << apiVars, engineVars, watcherVars, entries, max_entries, max_size, backup_count, memHist,
                  posix, denied >>

\* The same entry is handed to a MemoryStorage and to a FileStorage.
StoreInBoth(e) ==
  /\ clock < MaxStores
  /\ clock' = clock + 1
  /\ MemoryStorage_store(e)
  /\ FileStorage_store(e)
  /\ UNCHANGED << apiVars, engineVars, watcherVars, max_entries, max_size, backup_count,
                  posix, denied >>

\* A line that json.loads rejects.
Garbage ==
  [json |-> FALSE, size |-> 1,
   data |-> [timestamp |-> -1, level |-> << >>, message |-> << >>, file_path |-> "None",
             extra_data |-> NoExtra]]

\* Something outside the program appends a malformed line to the log file.
CorruptLine ==
  /\ envOps > 0
  /\ envOps' = envOps - 1
  /\ log_file.exists
  /\ log_file' = [log_file EXCEPT !.lines = Append(@, Garbage)]
  /\ UNCHANGED << apiVars, engineVars, entries, max_entries, backups, max_size, backup_count, clock,
                  memHist, fileHist, posix, denied, raisedOut, swallowed,
                  fs, gen, wsize, watched_files, handlers, running, thread_, mainpc,
                  lastJoin, pc, files_to_check, idx, current_size, new_lines, li, hi,
                  rdmark, shrunk, calls >>

\* Something outside the program takes away, or gives back, the permissions
\* on the log directory and its files.
chmod ==
  /\ envOps > 0
  /\ envOps' = envOps - 1
  /\ denied' = ~denied
  /\ UNCHANGED << apiVars, engineVars, entries, max_entries, log_file, backups, max_size,
                  backup_count, clock, memHist, fileHist, posix, raisedOut, swallowed,
                  fs, gen, wsize, watched_files, handlers, running, thread_, mainpc,
                  lastJoin, pc, files_to_check, idx, current_size, new_lines, li, hi,
                  rdmark, shrunk, calls >>

InitStorage ==
  /\ entries = << >>
  /\ log_file = Absent
  /\ backups = [i \in BackupSlots |-> Absent]
  /\ clock = 0
  /\ memHist = << >>
  /\ fileHist = << >>
  /\ raisedOut = FALSE
  /\ swallowed = << >>

\* ------------------------------------------------------ regular expressions
Digits == << "0", "1", "2", "3", "4", "5", "6", "7", "8", "9" >>

\* \d and \w, for the characters that occur here
IsDigit(c) == c \in { Digits[i] : i \in 1 .. Len(Digits) }

IsWord(c) == c \in DOMAIN LowerOf \/ c \in DOMAIN UpperOf \/ IsDigit(c) \/ c = "_"

\* The length of the longest run of \w characters that starts at position i.
RECURSIVE WordRun(_, _)
WordRun(s, i) == IF i <= Len(s) /\ IsWord(s[i]) THEN 1 + WordRun(s, i + 1) ELSE 0

\* The result of pattern.search: None, or the text of the group asked for.
NoMatch == [found |-> FALSE, text |-> << >>]

Match(text) == [found |-> TRUE, text |-> text]

Leftmost(S) == CHOOSE i \in S : \A j \in S : i <= j

\* Does the literal w stand at position i of s, letter case ignored (re.I)?
WordAt(s, i, w) ==
  /\ i >= 1
  /\ i + Len(w) - 1 <= Len(s)
  /\ lower(SubSeq(s, i, i + Len(w) - 1)) = lower(w)

\* re.I search for one of the literals of the set ws
SearchAny(ws, s) == \E i \in 1 .. Len(s), w \in ws : WordAt(s, i, w)

\* r"\[(\w+)\]", group 1
SearchBracketed(s) ==
  LET at == { i \in 1 .. Len(s) : /\ s[i] = "["
                                   /\ WordRun(s, i + 1) >= 1
                                   /\ i + WordRun(s, i + 1) + 1 <= Len(s)
                                   /\ s[i + WordRun(s, i + 1) + 1] = "]" }
  IN IF at = {} THEN NoMatch
     ELSE Match(SubSeq(s, Leftmost(at) + 1, Leftmost(at) + WordRun(s, Leftmost(at) + 1)))

\* r"^(\w+):", group 1
SearchPrefixed(s) ==
  LET n == WordRun(s, 1)
  IN IF n >= 1 /\ n + 1 <= Len(s) /\ s[n + 1] = ":" THEN Match(SubSeq(s, 1, n)) ELSE NoMatch

CRITICAL == << "C", "R", "I", "T", "I", "C", "A", "L" >>
TRACE == << "T", "R", "A", "C", "E" >>

LevelWords == << DEBUG, INFO, WARNING, ERROR, CRITICAL, TRACE >>

\* r"(DEBUG|INFO|WARNING|ERROR|CRITICAL|TRACE)", group 0: the leftmost
\* position where an alternative matches, and there the first alternative.
SearchLevelWord(s) ==
  LET at == { i \in 1 .. Len(s) : \E k \in 1 .. Len(LevelWords) : WordAt(s, i, LevelWords[k]) }
  IN IF at = {} THEN NoMatch
     ELSE LET i == Leftmost(at)
              k == Leftmost({ n \in 1 .. Len(LevelWords) : WordAt(s, i, LevelWords[n]) })
          IN Match(SubSeq(s, i, i + Len(LevelWords[k]) - 1))

\* The last position at or before j that holds no whitespace (0 if none).
RECURSIVE SkipSpaceBack(_, _)
SkipSpaceBack(s, j) == IF j >= 1 /\ IsSpace(s[j]) THEN SkipSpaceBack(s, j - 1) ELSE j

\* Does a text matched by \d+\.?\d* end at position j?
EndsNumber(s, j) ==
  /\ j >= 1
  /\ \/ IsDigit(s[j])
     \/ s[j] = "." /\ j >= 2 /\ IsDigit(s[j - 1])

\* r"(\d+\.?\d*)\s*(u1|u2|...)" with re.I: a unit that a number precedes,
\* whitespace allowed between them.
SearchQuantity(units, s) ==
  \E k \in 1 .. Len(s), u \in units :
    WordAt(s, k, u) /\ EndsNumber(s, SkipSpaceBack(s, k - 1))

DigitsAt(s, i, n) == i + n - 1 <= Len(s) /\ \A j \in i .. (i + n - 1) : IsDigit(s[j])

DotAt(s, i) == i <= Len(s) /\ s[i] = "."

\* \b between positions i - 1 and i
Boundary(s, i) == (i - 1 >= 1 /\ IsWord(s[i - 1])) # (i <= Len(s) /\ IsWord(s[i]))

\* r"\b(?:\d{1,3}\.){3}\d{1,3}\b"
SearchIp(s) ==
  \E i \in 1 .. Len(s), a \in 1 .. 3, b \in 1 .. 3, c \in 1 .. 3, d \in 1 .. 3 :
    LET p2 == i + a + 1
        p3 == p2 + b + 1
        p4 == p3 + c + 1
    IN /\ Boundary(s, i)
       /\ DigitsAt(s, i, a) /\ DotAt(s, i + a)
       /\ DigitsAt(s, p2, b) /\ DotAt(s, p2 + b)
       /\ DigitsAt(s, p3, c) /\ DotAt(s, p3 + c)
       /\ DigitsAt(s, p4, d)
       /\ Boundary(s, p4 + d)

\* r"https?://[^\s]+" (letter case matters)
SearchUrl(s) ==
  \E i \in 1 .. Len(s), w \in { << "h", "t", "t", "p", ":", "/", "/" >>,
                                << "h", "t", "t", "p", "s", ":", "/", "/" >> } :
    /\ i + Len(w) <= Len(s)
    /\ SubSeq(s, i, i + Len(w) - 1) = w
    /\ ~IsSpace(s[i + Len(w)])

\* "at line " of r"at line \d+"
AtLine == << "a", "t", " ", "l", "i", "n", "e", " " >>

\* r"traceback|stack trace|at line \d+" with re.I
SearchStacktrace(s) ==
  \/ SearchAny({ << "t", "r", "a", "c", "e", "b", "a", "c", "k" >>,
                 << "s", "t", "a", "c", "k", " ", "t", "r", "a", "c", "e" >> }, s)
  \/ \E i \in 1 .. Len(s) : WordAt(s, i, AtLine) /\ DigitsAt(s, i + Len(AtLine), 1)

\* ---------------------------------------------------------- the processors
\* dict.get(k, default) and d[k] = v, a dict being a function from its keys
Get(d, k, default) == IF k \in DOMAIN d THEN d[k] ELSE default

Put(d, k, v) == [x \in (DOMAIN d) \cup {k} |-> IF x = k THEN v ELSE d[x]]

\* `not x` for x None or a dict
Falsy(x) == x.none \/ DOMAIN x.d = {}

LogLevelParser_process_WordFirst(entry) ==
  LET s == entry.message
      level == IF SearchLevelWord(s).found THEN upper(SearchLevelWord(s).text)
               ELSE IF SearchBracketed(s).found THEN upper(SearchBracketed(s).text)
               ELSE IF SearchPrefixed(s).found THEN upper(SearchPrefixed(s).text)
               ELSE INFO
  IN Dict([k \in {"level"} |-> level])

\* LogLevelParser.process: the first of the three patterns that matches
\* gives the level, upper-cased; INFO when none matches.
LogLevelParser_process(entry) ==
  LET s == entry.message
      level == IF SearchBracketed(s).found THEN upper(SearchBracketed(s).text)
               ELSE IF SearchPrefixed(s).found THEN upper(SearchPrefixed(s).text)
               ELSE IF SearchLevelWord(s).found THEN upper(SearchLevelWord(s).text)
               ELSE INFO
  IN Dict([k \in {"level"} |-> level])

\* The keys of PatternDetector.patterns, in the order of the dict.
PatternNames ==
  << "error", "warning", "performance", "memory", "ip_address", "url", "stacktrace" >>

Detects(name, s) ==
  CASE name = "error" ->
         SearchAny({ << "e", "r", "r", "o", "r" >>,
                     << "e", "x", "c", "e", "p", "t", "i", "o", "n" >>,
                     << "f", "a", "i", "l", "e", "d" >> }, s)
    [] name = "warning" ->
         SearchAny({ << "w", "a", "r", "n", "i", "n", "g" >>,
                     << "w", "a", "r", "n" >>,
                     << "c", "a", "u", "t", "i", "o", "n" >> }, s)
    [] name = "performance" ->
         SearchQuantity({ << "m", "s" >>,
                          << "s", "e", "c", "o", "n", "d" >>,
                          << "m", "i", "n", "u", "t", "e" >> }, s)
    [] name = "memory" ->
         SearchQuantity({ << "M", "B" >>, << "G", "B" >>, << "K", "B" >> }, s)
    [] name = "ip_address" -> SearchIp(s)
    [] name = "url" -> SearchUrl(s)
    [] name = "stacktrace" -> SearchStacktrace(s)

PatternDetector_process_FirstOnly(entry) ==
  LET detected == SelectSeq(PatternNames, LAMBDA name : Detects(name, entry.message))
  IN IF detected = << >> THEN NoExtra ELSE Dict([k \in {"patterns"} |-> << detected[1] >>])

\* PatternDetector.process: None when nothing is detected.
PatternDetector_process(entry) ==
  LET detected == SelectSeq(PatternNames, LAMBDA name : Detects(name, entry.message))
  IN IF detected = << >> THEN NoExtra ELSE Dict([k \in {"patterns"} |-> detected])

\* Processors added with add_processor: one whose process() returns None
\* and one whose process() raises.
PluginKinds == {"Quiet", "Faulty"}

\* Does processor.process(entry) raise?
ProcessorRaises(kind, entry) == kind = "Faulty"

process(kind, entry) ==
  IF kind = "LogLevelParser" THEN LogLevelParser_process(entry)
  ELSE IF kind = "PatternDetector" THEN PatternDetector_process(entry)
  ELSE NoExtra

UpdateLevel_Always(level, detected_level) == detected_level

\* `if entry.level in ("INFO", "DEBUG"): entry.level = detected_level`
UpdateLevel(level, detected_level) ==
  IF level \in {INFO, DEBUG} THEN detected_level ELSE level

\* The body of `if result:` in _process_and_store.
ApplyResult(entry, result) ==
  LET e1 == IF "level" \in DOMAIN result.d
              THEN [entry EXCEPT !.level = UpdateLevel(entry.level, result.d["level"])]
              ELSE entry
      base == IF Falsy(e1.extra_data) THEN << >> ELSE e1.extra_data.d
  IN IF "patterns" \in DOMAIN result.d
       THEN [e1 EXCEPT !.extra_data = Dict(Put(base, "patterns", result.d["patterns"]))]
       ELSE e1

\* `for processor in self.processors`
RECURSIVE RunProcessors(_, _)
RunProcessors(procs, entry) ==
  IF procs = << >> THEN entry
  ELSE LET result == process(Head(procs), entry)
       IN RunProcessors(Tail(procs), IF Falsy(result) THEN entry ELSE ApplyResult(entry, result))

\* The patterns _process_and_store counts for an entry.
CountedPatterns(entry) ==
  IF ~Falsy(entry.extra_data) /\ "patterns" \in DOMAIN entry.extra_data.d
    THEN entry.extra_data.d["patterns"] ELSE << >>

\* ------------------------------------------------------------- MeowLogger
\* The message argument of log(): a string, None, or an object whose
\* __str__ raises.
StrArg(text) == [kind |-> "str", text |-> text]

NoneArg == [kind |-> "None", text |-> << >>]

UnprintableArg == [kind |-> "unprintable", text |-> << >>]

Unprintable == << "<", "u", "n", "p", "r", "i", "n", "t", "a", "b", "l", "e", ">" >>

\* A number and a dict with one key, as message arguments.
IntArg(n) == [kind |-> "int", text |-> << >>, value |-> n]

DictArg(k, v) == [kind |-> "dict", text |-> << >>, key |-> k, val |-> v]

\* str(n) of a natural number: its decimal digits.
RECURSIVE Decimal(_)
Decimal(n) == IF n < 10 THEN << Digits[n + 1] >> ELSE Decimal(n \div 10) \o << Digits[(n % 10) + 1] >>

\* str(d) of a dict with one string key and one string value: its repr.
DictRepr(k, v) == << "{", "'" >> \o k \o << "'", ":", " ", "'" >> \o v \o << "'", "}" >>

\* The coercion at the head of log().
message_str(message) ==
  IF message.kind = "None" THEN << >>
  ELSE IF message.kind = "unprintable" THEN Unprintable
  ELSE IF message.kind = "int" THEN Decimal(message.value)
  ELSE IF message.kind = "dict" THEN DictRepr(message.key, message.val)
  ELSE message.text

log_raises_Unguarded(message) == message.kind = "unprintable"

\* Does the coercion let an exception out of log()?  `except Exception`
\* around str(message) catches whatever __str__ raises.
log_raises(message) == FALSE

warnMsg == << "[", "w", "a", "r", "n", "]", " ", "5", "m", "s" >>

errorMsg == << "E", "r", "r", "o", "r", ":", " ", "x" >>

\* The log() calls made: << level, message, kwargs >>.
LogArgs ==
  { << ERROR, StrArg(warnMsg), Dict(<< >>) >>,
    << << "i", "n", "f", "o" >>, StrArg(errorMsg), codeExtra >>,
    << DEBUG, NoneArg, Dict(<< >>) >>,
    << WARNING, UnprintableArg, Dict(<< >>) >> }

MeowLogger_init ==
  /\ storage = "memory"
  /\ processors = << "LogLevelParser", "PatternDetector" >>
  /\ stats = [total_logs |-> 0, by_level |-> << >>, by_pattern |-> << >>]
  /\ entry_ = [t \in Callers |-> LogEntry(0, << >>, << >>, "None", NoExtra)]
  /\ tmp = [t \in Callers |-> 0]
  /\ pidx = [t \in Callers |-> 0]
  /\ created = [t \in Callers |-> << >>]
  /\ counted = [t \in Callers |-> << >>]
  /\ logHist = << >>

set_storage_Moving(s) ==
  /\ storage # s
  /\ storage' = s
  /\ stable' = [t \in Callers |-> FALSE]
  /\ IF s = "memory"
       THEN log_file' = Absent /\ UNCHANGED entries
       ELSE entries' = << >> /\ UNCHANGED log_file
  /\ UNCHANGED << lockVars, watchHist, ref, watcherVars, max_entries, backups, max_size, backup_count,
                  clock, memHist, fileHist, posix, denied, raisedOut, swallowed, processors,
                  stats, lpc, entry_, tmp, pidx, created, counted, logHist >>

\* set_storage: `self.storage = storage`, the engine is pointed at the
\* memory or at the file backend.
set_storage(s) ==
  /\ storage # s
  /\ storage' = s
  /\ stable' = [t \in Callers |-> FALSE]
  /\ UNCHANGED << lockVars, watchHist, ref, watcherVars, storageVars, processors, stats, lpc, entry_,
                  tmp, pidx, created, counted, logHist >>

\* add_processor: `self.processors.append(processor)`
add_processor(kind) ==
  /\ Len(processors) < MaxProcessors
  /\ processors' = Append(processors, kind)
  /\ UNCHANGED << apiVars, watcherVars, storageVars, storage, stats, lpc, entry_, tmp, pidx,
                  created, counted, logHist >>

LevelArg_AsGiven(level) == level

\* `level=str(level).upper()` in log()
LevelArg(level) == upper(level)

\* log(level, message, **kwargs) up to the call of _process_and_store: the
\* message is coerced to a string and the entry is created.
log(t, level, message, kwargs) ==
  /\ lpc[t] = "idle"
  /\ clock < MaxLogs
  /\ clock' = clock + 1
  /\ IF log_raises(message)
       THEN UNCHANGED << entry_, created, lpc, stable >>
       ELSE /\ stable' = [stable EXCEPT ![t] = TRUE]
            /\ entry_' = [entry_ EXCEPT ![t] =
                            LogEntry(clock, LevelArg(level), message_str(message), "None",
                                     IF Falsy(kwargs) THEN NoExtra ELSE kwargs)]
            /\ created' = [created EXCEPT ![t] = LevelArg(level)]
            /\ lpc' = [lpc EXCEPT ![t] = "process"]
  /\ UNCHANGED << lockVars, watchHist, ref, watcherVars, entries, max_entries, log_file, backups,
                  max_size, backup_count, memHist, fileHist, posix, denied, raisedOut,
                  swallowed, storage, processors, stats, tmp,
                  pidx, counted, logHist >>

NewLineLevel_Error == ERROR

\* `level="INFO",  # Will be updated by processor` in _handle_new_line
NewLineLevel == INFO

\* _handle_new_line(file_path, line), the handler the logger registers with
\* its watcher, up to the call of _process_and_store: the entry is created
\* for the line the poll loop delivered.
_handle_new_line(t, file_path, line) ==
  /\ lpc[t] = "idle"
  /\ clock < MaxLogs
  /\ clock' = clock + 1
  /\ stable' = [stable EXCEPT ![t] = TRUE]
  /\ entry_' = [entry_ EXCEPT ![t] = LogEntry(clock, NewLineLevel, line, file_path, NoExtra)]
  /\ created' = [created EXCEPT ![t] = NewLineLevel]
  /\ lpc' = [lpc EXCEPT ![t] = "process"]
  /\ UNCHANGED << lockVars, watchHist, ref, watcherVars, entries, max_entries, log_file, backups,
                  max_size, backup_count, memHist, fileHist, posix, denied, raisedOut,
                  swallowed, storage, processors, stats, tmp,
                  pidx, counted, logHist >>

\* The processors loop of _process_and_store; it works on the caller's own
\* entry only.
\* Nothing catches an exception of processor.process: it ends the loop and
\* _process_and_store, and leaves log().
run_processors(t) ==
  /\ lpc[t] = "process"
  /\ IF \E k \in 1 .. Len(processors) : ProcessorRaises(processors[k], entry_[t])
       THEN /\ lpc' = [lpc EXCEPT ![t] = "idle"]
            /\ stable' = [stable EXCEPT ![t] = FALSE]
            /\ UNCHANGED entry_
       ELSE /\ entry_' = [entry_ EXCEPT ![t] = RunProcessors(processors, entry_[t])]
            /\ lpc' = [lpc EXCEPT ![t] = "total_load"]
            /\ UNCHANGED stable
  /\ UNCHANGED << lockVars, watchHist, ref, watcherVars, storageVars, storage, processors, stats, tmp,
                  pidx, created, counted, logHist >>

\* `self.stats["total_logs"] += 1` is a load, an add and a store, with no
\* lock around them.
stats_total_load(t) ==
  /\ lpc[t] = "total_load"
  /\ tmp' = [tmp EXCEPT ![t] = stats.total_logs]
  /\ lpc' = [lpc EXCEPT ![t] = "total_store"]
  /\ UNCHANGED << apiVars, watcherVars, storageVars, storage, processors, stats, entry_, pidx,
                  created, counted, logHist >>

stats_total_store(t) ==
  /\ lpc[t] = "total_store"
  /\ stats' = [stats EXCEPT !.total_logs = tmp[t] + 1]
  /\ lpc' = [lpc EXCEPT ![t] = "level_load"]
  /\ UNCHANGED << apiVars, watcherVars, storageVars, storage, processors, entry_, tmp, pidx,
                  created, counted, logHist >>

\* `self.stats["by_level"].get(entry.level, 0) + 1`
stats_level_load(t) ==
  /\ lpc[t] = "level_load"
  /\ tmp' = [tmp EXCEPT ![t] = Get(stats.by_level, entry_[t].level, 0)]
  /\ lpc' = [lpc EXCEPT ![t] = "level_store"]
  /\ UNCHANGED << apiVars, watcherVars, storageVars, storage, processors, stats, entry_, pidx,
                  created, counted, logHist >>

\* `self.stats["by_level"][entry.level] = ...`; counted is the key written.
stats_level_store(t) ==
  /\ lpc[t] = "level_store"
  /\ stats' = [stats EXCEPT !.by_level = Put(stats.by_level, entry_[t].level, tmp[t] + 1)]
  /\ counted' = [counted EXCEPT ![t] = entry_[t].level]
  /\ IF CountedPatterns(entry_[t]) # << >>
       THEN /\ pidx' = [pidx EXCEPT ![t] = 1]
            /\ lpc' = [lpc EXCEPT ![t] = "pattern_load"]
       ELSE /\ pidx' = pidx
            /\ lpc' = [lpc EXCEPT ![t] = "store"]
  /\ UNCHANGED << apiVars, watcherVars, storageVars, storage, processors, entry_, tmp, created,
                  logHist >>

\* `for pattern in entry.extra_data["patterns"]`: the load of one count
stats_pattern_load(t) ==
  /\ lpc[t] = "pattern_load"
  /\ tmp' = [tmp EXCEPT ![t] = Get(stats.by_pattern, CountedPatterns(entry_[t])[pidx[t]], 0)]
  /\ lpc' = [lpc EXCEPT ![t] = "pattern_store"]
  /\ UNCHANGED << apiVars, watcherVars, storageVars, storage, processors, stats, entry_, pidx,
                  created, counted, logHist >>

\* and its store, then the next pattern or the end of the loop.
stats_pattern_store(t) ==
  /\ lpc[t] = "pattern_store"
  /\ stats' = [stats EXCEPT !.by_pattern =
                 Put(stats.by_pattern, CountedPatterns(entry_[t])[pidx[t]], tmp[t] + 1)]
  /\ IF pidx[t] < Len(CountedPatterns(entry_[t]))
       THEN /\ pidx' = [pidx EXCEPT ![t] = pidx[t] + 1]
            /\ lpc' = [lpc EXCEPT ![t] = "pattern_load"]
       ELSE /\ pidx' = [pidx EXCEPT ![t] = 0]
            /\ lpc' = [lpc EXCEPT ![t] = "store"]
  /\ UNCHANGED << apiVars, watcherVars, storageVars, storage, processors, entry_, tmp, created,
                  counted, logHist >>

\* backend.store(entry) for the backend b, and the return of log().
StoreIn(t, b) ==
  /\ IF b = "memory"
       THEN MemoryStorage_store(entry_[t]) /\ UNCHANGED << log_file, backups, fileHist, raisedOut, swallowed >>
       ELSE FileStorage_store(entry_[t]) /\ UNCHANGED << entries, memHist >>
  /\ logHist' = Append(logHist, [created |-> created[t], counted |-> counted[t],
                                 entry |-> entry_[t], storage |-> b])
  /\ lpc' = [lpc EXCEPT ![t] = "idle"]
  /\ stable' = [stable EXCEPT ![t] = FALSE]
  /\ ref' = [ref EXCEPT ![t] = ""]
  /\ UNCHANGED << lockVars, watchHist, watcherVars, max_entries, max_size, backup_count, clock, posix,
                  denied, storage, processors, stats, entry_, tmp, pidx, created, counted >>

\* `self.storage.store(entry)` in one step, where no set_storage can run in
\* between, and the return of log().
storage_store(t) ==
  /\ lpc[t] = "store"
  /\ ref[t] = ""
  /\ StoreIn(t, storage)

\* `self.storage.store(entry)` in its two steps: the attribute self.storage
\* is read,
storage_load(t) ==
  /\ lpc[t] = "store"
  /\ ref[t] = ""
  /\ ref' = [ref EXCEPT ![t] = storage]
  /\ UNCHANGED << lockVars, watchHist, stable, watcherVars, storageVars, engineVars >>

\* and store() is called on the object that was read.
storage_call(t) ==
  /\ lpc[t] = "store"
  /\ ref[t] # ""
  /\ StoreIn(t, ref[t])

\* os.path.isfile and os.path.isdir
isfile(p) == p \in Paths /\ fs[p].exists

isdir(p) == p \in Dirs

\* path.glob("**/*.log"): the existing log files below the directory.
glob(d) == IF d = "logs" THEN { p \in Paths : fs[p].exists } ELSE {}

\* The orders in which glob can yield these files.
Orders(S) ==
  { o \in [1 .. Cardinality(S) -> S] : \A i, j \in 1 .. Cardinality(S) : o[i] = o[j] => i = j }

\* watch_file for each file of the sequence, in turn.
RECURSIVE WatchEach(_, _)
WatchEach(wf, files) ==
  IF files = << >> THEN wf
  ELSE WatchEach(IF fs[Head(files)].exists
                   THEN SetPos(wf, Head(files), Len(fs[Head(files)].data))
                   ELSE wf,
                 Tail(files))

watch_branch_Lenient(p) ==
  IF isfile(p) THEN "watch_file" ELSE "watch_directory"

\* The branch that watch(path) takes.
watch_branch(p) ==
  IF isfile(p) THEN "watch_file"
  ELSE IF isdir(p) THEN "watch_directory"
  ELSE "ValueError"

\* MeowLogger.watch(path)
watch(p) ==
  /\ Len(watchHist) < MaxWatches
  /\ \/ /\ watch_branch(p) = "watch_file"
        /\ watched_files' = WatchEach(watched_files, << p >>)
        /\ wsize' = [wsize EXCEPT ![p] = Len(fs[p].data)]
        /\ watchHist' = Append(watchHist, [path |-> p, raised |-> FALSE])
     \/ /\ watch_branch(p) = "watch_directory"
        /\ \E files \in Orders(IF isdir(p) THEN glob(p) ELSE {}) :
             watched_files' = WatchEach(watched_files, files)
        /\ wsize' = [q \in Paths |-> IF isdir(p) /\ q \in glob(p) THEN Len(fs[q].data) ELSE wsize[q]]
        /\ watchHist' = Append(watchHist, [path |-> p, raised |-> FALSE])
     \/ /\ watch_branch(p) = "ValueError"
        /\ watchHist' = Append(watchHist, [path |-> p, raised |-> TRUE])
        /\ UNCHANGED << watched_files, wsize >>
  /\ UNCHANGED << engineVars, storageVars, fs, gen, envOps, handlers, running, thread_, mainpc,
                  lastJoin, pc, files_to_check, idx, current_size, new_lines, li, hi, rdmark,
                  shrunk, calls, stable, ref, lockVars >>

\* The default of retrieve's `limit` parameter.
DefaultLimit == 100

\* The keys that retrieve looks up in the dict it is given; a missing key
\* reads as empty (filters.get).
FilterKeys(kwargs) ==
  [level |-> IF "level" \in DOMAIN kwargs THEN kwargs.level ELSE << >>,
   search |-> IF "search" \in DOMAIN kwargs THEN kwargs.search ELSE << >>,
   file_path |-> IF "file_path" \in DOMAIN kwargs THEN kwargs.file_path ELSE ""]

\* get_logs(**filters): `return self.storage.retrieve(filters)`.  All the
\* keyword arguments go into the one dict; retrieve's own `limit` parameter
\* is not passed and takes its default.
get_logs(kwargs) ==
  IF storage = "memory"
    THEN MemoryStorage_retrieve(FilterKeys(kwargs), DefaultLimit)
    ELSE FileStorage_retrieve(FilterKeys(kwargs), DefaultLimit)

\* APIHandler.handle_clear: the entries of the active backend are cleared
\* when it is a MemoryStorage, and the three statistics are reset.
handle_clear ==
  /\ entries' = IF storage = "memory" THEN << >> ELSE entries
  /\ stats' = [total_logs |-> 0, by_level |-> << >>, by_pattern |-> << >>]
  /\ UNCHANGED << apiVars, watcherVars, max_entries, log_file, backups, max_size, backup_count,
                  clock, memHist, fileHist, posix, denied, raisedOut, swallowed, storage,
                  processors, lpc, entry_, tmp, pidx, created, counted, logHist >>

\* ------------------------------------- FileStorage, statement by statement
\* What one thread's store and another thread's retrieve leave unchanged.
OutsideTheFiles ==
  << watcherVars, engineVars, watchHist, stable, ref, entries, max_entries, max_size,
     backup_count, memHist, posix, denied >>

\* retrieve with no filters and the default limit, on a primary file in
\* this state.
RetrieveOf(file) ==
  IF ~file.exists THEN << >> ELSE ScanLines(file.lines, NoFilters, DefaultLimit)

\* store returns: the `with self._lock` block is left.
Release(file) ==
  /\ _lock' = ""
  /\ spc' = "idle"
  /\ committed' = file
  /\ atomic' = IF rpc = "open" THEN atomic \cup {RetrieveOf(file)} ELSE atomic

\* store is called and enters `with self._lock`.
store_enter(e) ==
  /\ spc = "idle"
  /\ _lock = ""
  /\ clock < MaxStores
  /\ clock' = clock + 1
  /\ _lock' = "store"
  /\ sentry' = e
  /\ spc' = "check"
  /\ UNCHANGED << OutsideTheFiles, log_file, backups, fileHist, raisedOut, swallowed,
                  rpc, returned, committed, atomic >>

\* os.path.exists and os.path.getsize > max_size.
store_check ==
  /\ spc = "check"
  /\ spc' = IF log_file.exists /\ FileSize(log_file.lines) > max_size THEN "rotate" ELSE "open"
  /\ UNCHANGED << OutsideTheFiles, log_file, backups, clock, fileHist, raisedOut, swallowed,
                  _lock, sentry, rpc, returned, committed, atomic >>

\* self._rotate(): the primary file is renamed to `.1`.
store_rotate ==
  /\ spc = "rotate"
  /\ log_file' = _rotate(log_file, backups, backup_count)[1]
  /\ backups' = _rotate(log_file, backups, backup_count)[2]
  /\ spc' = "open"
  /\ UNCHANGED << OutsideTheFiles, clock, fileHist, raisedOut, swallowed,
                  _lock, sentry, rpc, returned, committed, atomic >>

\* open(self.log_file, "a"): creates the file when there is none.  When it
\* raises, `except Exception: return` ends the call.
store_open ==
  /\ spc = "open"
  /\ IF denied
       THEN /\ swallowed' = Append(swallowed, << sentry.timestamp, "OSError" >>)
            /\ Release(log_file)
            /\ UNCHANGED log_file
       ELSE /\ log_file' = [exists |-> TRUE, lines |-> log_file.lines]
            /\ spc' = "write"
            /\ UNCHANGED << swallowed, _lock, committed, atomic >>
  /\ UNCHANGED << OutsideTheFiles, backups, clock, fileHist, raisedOut, sentry, rpc, returned >>

\* f.write(json.dumps(...) + "\n"), the close of the file, and the return.
store_write ==
  /\ spc = "write"
  /\ IF Serializable(sentry)
       THEN /\ log_file' = [log_file EXCEPT !.lines = Append(@, ToJson(sentry))]
            /\ fileHist' = Append(fileHist, sentry)
            /\ UNCHANGED swallowed
       ELSE /\ swallowed' = Append(swallowed, << sentry.timestamp, "TypeError" >>)
            /\ UNCHANGED << log_file, fileHist >>
  /\ Release(log_file')
  /\ UNCHANGED << OutsideTheFiles, backups, clock, raisedOut, sentry, rpc, returned >>

\* retrieve is called: `if not os.path.exists(self.log_file): return []`.
\* It takes no lock.
retrieve_exists ==
  /\ rpc \in {"idle", "done"}
  /\ atomic' = {RetrieveOf(committed)}
  /\ IF ~log_file.exists
       THEN rpc' = "done" /\ returned' = << >>
       ELSE rpc' = "open" /\ UNCHANGED returned
  /\ UNCHANGED << OutsideTheFiles, log_file, backups, clock, fileHist, raisedOut, swallowed, _lock, spc, sentry, committed >>

\* open(self.log_file, "rb") and the scan of f.readlines();
\* `except Exception: return []` when the open raises.
retrieve_read ==
  /\ rpc = "open"
  /\ returned' = IF ~log_file.exists \/ denied THEN << >>
                 ELSE ScanLines(log_file.lines, NoFilters, DefaultLimit)
  /\ rpc' = "done"
  /\ UNCHANGED << OutsideTheFiles, log_file, backups, clock, fileHist, raisedOut, swallowed, _lock, spc, sentry, committed, atomic >>

\* ------------------------------------------------------- specifications
\* A platform whose os.rename replaces its target, and log files that can
\* be opened.
Accessible == posix = TRUE /\ denied = FALSE

\* The storage: a MemoryStorage of capacity MaxCap and a FileStorage with
\* one backup.
DefaultStorage ==
  InitStorage /\ Accessible /\ max_entries = MaxCap /\ max_size = MaxCap /\ backup_count = 1

NoCallers == lpc = [t \in Callers |-> "none"]

InitWatch == InitWatcher /\ envOps = MaxEnvOps /\ DefaultStorage /\ MeowLogger_init /\ NoCallers

InitLife == InitWatcher /\ envOps = LifeEnvOps /\ DefaultStorage /\ MeowLogger_init /\ NoCallers

InitStore ==
  /\ InitWatcher /\ envOps = 0
  /\ MeowLogger_init /\ NoCallers
  /\ InitStorage /\ Accessible
  /\ max_entries \in 0 .. MaxCap
  /\ max_size \in {2, 12}
  /\ backup_count \in 0 .. MaxBackups

LoopStep ==
  \E t \in Threads :
    \/ loop_while(t)
    \/ loop_snapshot(t)
    \/ loop_stat(t)
    \/ loop_read(t)
    \/ loop_dispatch(t)
    \/ loop_update(t)

NextWatch ==
  \/ \E p \in Paths, c \in Chunks : AppendChunk(p, c)
  \/ \E p \in Paths : Truncate(p)
  \/ \E k \in HandlerKinds : add_handler(k)
  \/ \E p \in Paths : watch_file(p)
  \/ start
  \/ LoopStep

\* The watcher with one poll loop: files are watched and written to, and the
\* loop is never stopped.
SpecWatch == InitWatch /\ [][NextWatch]_vars

NextLife ==
  \/ \E p \in Paths, c \in Chunks : AppendChunk(p, c)
  \/ \E p \in Paths : watch_file(p)
  \/ start
  \/ stop
  \/ stop_join
  \/ LoopStep

\* The watcher's life cycle: any sequence of start() and stop().
SpecLife == InitLife /\ [][NextLife]_vars

\* Both log files exist and are watched from their ends, as after watch()
\* on their directory; the watcher has the one handler that the MeowLogger
\* constructor registers, _handle_new_line, which either works or raises
\* what a processor raises; and start() has been called.
InitIo ==
  /\ \E d \in InitialData :
       /\ fs = [p \in Paths |-> [exists |-> TRUE, data |-> d, readable |-> TRUE]]
       /\ watched_files = << [path |-> "a.log", pos |-> Len(d)], [path |-> "b.log", pos |-> Len(d)] >>
       /\ wsize = [p \in Paths |-> Len(d)]
  /\ gen = [p \in Paths |-> 0]
  /\ handlers \in { << k >> : k \in HandlerKinds }
  /\ running = TRUE
  /\ thread_ = 1
  /\ mainpc = "idle"
  /\ lastJoin = "none"
  /\ pc = [t \in Threads |-> IF t = 1 THEN "while" ELSE "none"]
  /\ files_to_check = [t \in Threads |-> << >>]
  /\ idx = [t \in Threads |-> 0]
  /\ current_size = [t \in Threads |-> 0]
  /\ new_lines = [t \in Threads |-> << >>]
  /\ li = [t \in Threads |-> 0]
  /\ hi = [t \in Threads |-> 0]
  /\ rdmark = [t \in Threads |-> 0]
  /\ shrunk = [t \in Threads |-> ""]
  /\ calls = << >>
  /\ watchHist = << >>
  /\ stable = [t \in Callers |-> FALSE]
  /\ ref = [t \in Callers |-> ""]
  /\ InitLock
  /\ envOps = IoEnvOps /\ DefaultStorage /\ MeowLogger_init /\ NoCallers

NextIo ==
  \/ \E p \in Paths : AppendChunk(p, << "a", "\n" >>)
  \/ \E p \in Paths : Remove(p)
  \/ \E p \in Paths : Deny(p)
  \/ stop
  \/ stop_join
  \/ LoopStep

\* The running poll loop over two files that other processes append to,
\* remove and lock, until stop() and after it.
SpecIo == InitIo /\ [][NextIo]_vars

NextStore ==
  \/ \E e \in SampleEntries : StoreInMemory(e)
  \/ \E e \in SampleEntries : StoreInFile(e)

\* The two storage backends, driven directly through store and retrieve.
SpecStore == InitStore /\ [][NextStore]_vars

InitRotate ==
  /\ InitWatcher /\ envOps = 0
  /\ MeowLogger_init /\ NoCallers
  /\ InitStorage
  /\ max_entries = MaxCap
  /\ max_size \in {2, 12}
  /\ backup_count \in 0 .. MaxBackups
  /\ posix \in BOOLEAN
  /\ denied = FALSE

NextRotate == \E e \in SampleEntries : StoreInFile(e)

\* The file backend and its rotation, on both kinds of platform.
SpecRotate == InitRotate /\ [][NextRotate]_vars

\* Entries that json.dumps accepts, of four levels and three sources.
TwinEntries ==
  { LogEntry(clock, INFO, okMsg, "None", NoExtra),
    LogEntry(clock, ERROR, diskMsg, "a.log", codeExtra),
    LogEntry(clock, WARNING, okMsg, "b.log", NoExtra),
    LogEntry(clock, DEBUG, diskMsg, "None", NoExtra) }

\* A memory backend that never evicts and a file backend that never
\* rotates within MaxStores stores.
InitTwin ==
  /\ InitWatcher /\ envOps = 0
  /\ MeowLogger_init /\ NoCallers
  /\ InitStorage /\ Accessible
  /\ max_entries = MaxStores + 1
  /\ max_size = 16 * MaxStores
  /\ backup_count \in 0 .. MaxBackups

NextTwin == \E e \in TwinEntries : StoreInBoth(e)

\* The two backends holding the same entries.
SpecTwin == InitTwin /\ [][NextTwin]_vars

NextRace ==
  \/ \E e \in SampleEntries : store_enter(e)
  \/ store_check
  \/ store_rotate
  \/ store_open
  \/ store_write
  \/ retrieve_exists
  \/ retrieve_read

\* One thread stores into the file backend while another retrieves from it.
SpecRace == InitRotate /\ [][NextRace]_vars

InitFault ==
  /\ InitWatcher /\ envOps = FaultEnvOps
  /\ MeowLogger_init /\ NoCallers
  /\ InitStorage
  /\ max_entries = MaxCap
  /\ max_size \in {2, 12}
  /\ backup_count = 1
  /\ posix \in BOOLEAN
  /\ denied \in BOOLEAN

NextFault ==
  \/ \E e \in SampleEntries : StoreInFile(e)
  \/ CorruptLine
  \/ chmod

\* The file backend with a file that something else damages or locks.
SpecFault == InitFault /\ [][NextFault]_vars

InitLog ==
  /\ InitWatcher /\ envOps = 0 /\ DefaultStorage /\ MeowLogger_init
  /\ lpc = [t \in Callers |-> "idle"]

\* One thread calls log().
InitPipe ==
  /\ InitWatcher /\ envOps = 0 /\ DefaultStorage /\ MeowLogger_init
  /\ lpc = [t \in Callers |-> IF t = 1 THEN "idle" ELSE "none"]

CallerStep ==
  \E t \in Callers :
    \/ run_processors(t)
    \/ stats_total_load(t)
    \/ stats_total_store(t)
    \/ stats_level_load(t)
    \/ stats_level_store(t)
    \/ stats_pattern_load(t)
    \/ stats_pattern_store(t)
    \/ storage_store(t)

NextLog ==
  \/ \E s \in {"memory", "file"} : clock = 0 /\ set_storage(s)
  \/ \E t \in Callers, a \in LogArgs : log(t, a[1], a[2], a[3])
  \/ CallerStep

\* The engine under direct log() calls from several threads.
SpecLog == InitLog /\ [][NextLog]_vars

\* The engine under direct log() calls from one thread.
SpecPipe == InitPipe /\ [][NextLog]_vars

\* What watch() is called with: a file that exists, a file that does not,
\* a directory with a file, a directory without, a name of nothing and the
\* empty string.
WatchArgs == Paths \cup Dirs \cup {"nope", ""}

NextApi ==
  \/ \E s \in {"memory", "file"} : clock = 0 /\ set_storage(s)
  \/ \E t \in Callers : log(t, ERROR, StrArg(warnMsg), Dict(<< >>))
  \/ CallerStep
  \/ \E p \in WatchArgs : watch(p)

\* The engine under watch() calls and direct log() calls from one thread.
SpecApi == InitPipe /\ [][NextApi]_vars

\* The messages of test_type_safety: a text, a number, a dict and None, and
\* an object that cannot be printed.
textMsg == << "S", "t", "r" >>

TypeArgs ==
  { StrArg(textMsg), IntArg(123), DictArg(<< "d", "i", "c", "t" >>, << "w", "a", "r", "n" >>),
    NoneArg, UnprintableArg }

NextTypes ==
  \/ \E s \in {"memory", "file"} : clock = 0 /\ set_storage(s)
  \/ \E t \in Callers, m \in TypeArgs : log(t, INFO, m, Dict(<< >>))
  \/ CallerStep

\* The engine under log() calls with messages of every type, from one thread.
SpecTypes == InitPipe /\ [][NextTypes]_vars

\* Messages with a level in brackets, as a prefix, as a bare word, with two
\* of these at once, with none, and with an address and a duration.
diskFullMsg ==
  << "[", "E", "R", "R", "O", "R", "]", " ", "d", "i", "s", "k",
     " ", "f", "u", "l", "l" >>

lowMemoryMsg ==
  << "W", "A", "R", "N", "I", "N", "G", ":", " ", "l", "o", "w",
     " ", "m", "e", "m", "o", "r", "y" >>

nothingMsg ==
  << "n", "o", "t", "h", "i", "n", "g", " ", "s", "p", "e", "c",
     "i", "a", "l", " ", "h", "e", "r", "e" >>

bracketAndWordMsg ==
  << "[", "w", "a", "r", "n", "]", " ", "E", "R", "R", "O", "R",
     ":", " ", "x" >>

prefixAndBracketMsg ==
  << "E", "r", "r", "o", "r", ":", " ", "[", "d", "e", "b", "u",
     "g", "]" >>

prefixAndWordMsg ==
  << "u", "p", ":", " ", "t", "r", "a", "c", "e" >>

connectionMsg ==
  << "C", "o", "n", "n", "e", "c", "t", "i", "o", "n", " ", "f",
     "r", "o", "m", " ", "1", "0", ".", "0", ".", "0", ".", "5",
     " ", "t", "o", "o", "k", " ", "2", "0", "0", "m", "s" >>

SampleMessages ==
  { diskFullMsg, lowMemoryMsg, nothingMsg, bracketAndWordMsg, prefixAndBracketMsg,
    prefixAndWordMsg, connectionMsg }

NextText ==
  \/ \E t \in Callers, m \in SampleMessages : log(t, INFO, StrArg(m), Dict(<< >>))
  \/ CallerStep

\* The engine, with its two processors and the memory backend, under log()
\* calls of one thread with level INFO and a text message.
SpecText == InitPipe /\ [][NextText]_vars

\* The stripped, non-empty lines the poll loop delivers from each watched
\* file.
FeedLines(p) ==
  IF p = "a.log" THEN { bracketAndWordMsg, prefixAndWordMsg }
  ELSE { nothingMsg, prefixAndBracketMsg }

bogusPatterns == Dict([k \in {"patterns"} |-> << "bogus" >>])

\* Direct log() calls with a lower-case level and with extra fields:
\* << level, message, kwargs >>.
FeedArgs ==
  { << << "i", "n", "f", "o" >>, StrArg(nothingMsg), codeExtra >>,
    << << "w", "a", "r", "n" >>, StrArg(nothingMsg), bogusPatterns >>,
    << << "E", "r", "r", "o", "r" >>, StrArg(connectionMsg), Dict(<< >>) >> }

NextFeed ==
  \/ \E s \in {"memory", "file"} : clock = 0 /\ set_storage(s)
  \/ \E t \in Callers, p \in Paths : \E line \in FeedLines(p) : _handle_new_line(t, p, line)
  \/ \E t \in Callers, a \in FeedArgs : log(t, a[1], a[2], a[3])
  \/ CallerStep

\* The engine fed by the watcher's lines and by direct log() calls, one
\* entry at a time.
SpecFeed == InitPipe /\ [][NextFeed]_vars

NextTally ==
  \/ NextFeed
  \/ handle_clear

\* The same, with clear requests of the web interface.
SpecTally == InitPipe /\ [][NextTally]_vars

NextPlugin ==
  \/ \E kind \in PluginKinds : clock = 0 /\ add_processor(kind)
  \/ \E t \in Callers, a \in LogArgs : log(t, a[1], a[2], a[3])
  \/ CallerStep

\* The engine with a processor added to the two built-in ones, under
\* direct log() calls from one thread.
SpecPlugin == InitPipe /\ [][NextPlugin]_vars

NextClear ==
  \/ \E s \in {"memory", "file"} : clock = 0 /\ set_storage(s)
  \/ \E t \in Callers : log(t, ERROR, StrArg(warnMsg), Dict(<< >>))
  \/ CallerStep
  \/ handle_clear

\* The engine under clear requests and direct log() calls from one thread.
SpecClear == InitPipe /\ [][NextClear]_vars

NextSwitch ==
  \/ \E s \in {"memory", "file"} : set_storage(s)
  \/ \E t \in Callers : log(t, ERROR, StrArg(warnMsg), Dict(<< >>))
  \/ \E t \in Callers :
       \/ run_processors(t)
       \/ stats_total_load(t)
       \/ stats_total_store(t)
       \/ stats_level_load(t)
       \/ stats_level_store(t)
       \/ stats_pattern_load(t)
       \/ stats_pattern_store(t)
       \/ storage_load(t)
       \/ storage_call(t)

\* The engine under log() calls while set_storage switches between the two
\* backends at any moment.
SpecSwitch == InitPipe /\ [][NextSwitch]_vars

\* ------------------------------------------------------------ properties
LiveLoops == { t \in Threads : pc[t] # "none" }

\* The handler invocations of read number rd of thread t, as indices of calls.
Batch(t, rd) == { i \in 1 .. Len(calls) : calls[i].t = t /\ calls[i].rd = rd }

NonBlank(lines) == { l \in 1 .. Len(lines) : strip(lines[l].text) # << >> }

\* C2: a complete line appended to a watched file (here: one that carries no
\* surrounding whitespace, so that the text without its terminator is the
\* text delivered) reaches every handler with that text and at most once:
\* no handler is invoked twice for the same line of the same file.
C2_ExactlyOnce ==
  \A i, j \in 1 .. Len(calls) :
    /\ calls[i].raw = << "a", "\n" >> => calls[i].line = chomp(calls[i].raw)
    /\ ( /\ i < j
         /\ calls[i].raw = << "a", "\n" >>
         /\ calls[i].path = calls[j].path
         /\ calls[i].h = calls[j].h
         /\ calls[i].gen = calls[j].gen )
       => calls[i].pos # calls[j].pos

\* C3: when the poll loop's size check has found a file smaller than its
\* recorded last_offset, the recorded last_offset of that file is 0.
C3_TruncationResetsOffset ==
  \A t \in Threads : shrunk[t] # "" => PosOf(watched_files, shrunk[t]) = 0

\* C4: at most one poll loop is running at any time, for any sequence of
\* start() and stop() calls.
C4_AtMostOneLoop == Cardinality(LiveLoops) <= 1

\* C7: content that was in the file when watch_file(path) was called is never
\* read and delivered to a handler afterwards.
C7_NoReplay == \A i \in 1 .. Len(calls) : ~calls[i].old

\* C8: a handler that raises does not stop the dispatch: the loop stays
\* alive, goes on with the next handler of the same line, and by the end of
\* the read every handler registered at the read has been invoked for every
\* non-blank line, raising handlers or not.
C8_HandlerIsolation ==
  \A t \in Threads :
    LET b == Batch(t, rdmark[t]) IN
      /\ (\E i \in 1 .. Len(calls) : calls[i].t = t /\ calls[i].raised) => pc[t] # "none"
      /\ \A i \in b :
           (calls[i].raised /\ pc[t] = "dispatch" /\ \A j \in b : j <= i)
             => li[t] = calls[i].l /\ hi[t] = calls[i].h + 1
      /\ (pc[t] = "update" /\ \E i \in b : calls[i].raised)
           => \A l \in NonBlank(new_lines[t]) : \A h \in 1 .. new_lines[t][l].nh0 :
                \E i \in b : calls[i].l = l /\ calls[i].h = h

C8_Witness ==
  \E i, j \in 1 .. Len(calls) :
    /\ i < j
    /\ calls[i].raised
    /\ calls[j].t = calls[i].t /\ calls[j].rd = calls[i].rd
    /\ calls[j].l = calls[i].l /\ calls[j].h = calls[i].h + 1
    /\ pc[calls[i].t] = "update"

NewestFirst(hist, n) == [i \in 1 .. n |-> hist[Len(hist) + 1 - i]]

Limits == 0 .. MaxLimit

FilterSet == { NoFilters,
               [level |-> ERROR, search |-> << >>, file_path |-> ""],
               [level |-> << >>, search |-> << "d", "i", "s", "k" >>, file_path |-> ""],
               [level |-> << >>, search |-> << >>, file_path |-> "a.log"] }

\* C5: retrieve with no filters and a limit that is at least the number of
\* entries the backend retains returns the retained entries in the reverse
\* of the order of the store calls, for the memory and for the file backend.
C5_ReverseChronological ==
  \A limit \in Limits :
    /\ limit >= Len(entries)
         => MemoryStorage_retrieve(NoFilters, limit) = NewestFirst(memHist, Len(entries))
    /\ limit >= Len(log_file.lines)
         => FileStorage_retrieve(NoFilters, limit) = NewestFirst(fileHist, Len(log_file.lines))

C5_Witness ==
  /\ Len(entries) >= 2
  /\ Len(log_file.lines) >= 2
  /\ Len(MemoryStorage_retrieve(NoFilters, MaxLimit)) >= 2
  /\ Len(FileStorage_retrieve(NoFilters, MaxLimit)) >= 2

\* C6: the memory backend holds at most max_entries entries, namely the most
\* recent ones in store order, and no retrieve returns an older entry.
C6_CapacityBound ==
  LET n == IF Len(memHist) < max_entries THEN Len(memHist) ELSE max_entries
      kept == { memHist[i] : i \in (Len(memHist) - n + 1) .. Len(memHist) }
  IN /\ Len(entries) <= max_entries
     /\ Len(entries) = n
     /\ \A i \in 1 .. n : entries[i] = memHist[Len(memHist) - n + i]
     /\ \A filters \in FilterSet : \A limit \in Limits :
          LET r == MemoryStorage_retrieve(filters, limit)
          IN \A i \in 1 .. Len(r) : r[i] \in kept

C6_Witness ==
  /\ max_entries >= 1
  /\ Len(memHist) > max_entries
  /\ Len(MemoryStorage_retrieve(NoFilters, MaxLimit)) = max_entries

\* The log() calls that have returned and were made with a level other
\* than INFO and DEBUG.
ExplicitCalls == { i \in 1 .. Len(logHist) : logHist[i].created \notin {INFO, DEBUG} }

\* What the storage backends were handed, in one sequence.
Stored == memHist \o fileHist

\* C1: once every caller of log() has returned, total_logs equals the number
\* of log() calls made.
C1_NoLostUpdate ==
  (\A t \in Callers : lpc[t] \in {"idle", "none"}) => stats.total_logs = clock

\* C10: an entry created with a level other than INFO and DEBUG has that
\* level after the processors have run, is counted in by_level under that
\* level, and is handed to the storage backend with that level.
C10_ExplicitLevelKept ==
  /\ \A t \in Callers :
       (lpc[t] \notin {"idle", "none", "process"} /\ created[t] \notin {INFO, DEBUG})
         => entry_[t].level = created[t]
  /\ \A i \in ExplicitCalls :
       /\ logHist[i].entry.level = logHist[i].created
       /\ logHist[i].counted = logHist[i].created
       /\ logHist[i].created \in DOMAIN stats.by_level
       /\ \A k \in 1 .. Len(Stored) :
            Stored[k].timestamp = logHist[i].entry.timestamp
              => Stored[k].level = logHist[i].created

\* A call with an explicit level whose message made LogLevelParser suggest
\* another level has returned, and its entry is in the storage backend.
C10_Witness ==
  \E i \in ExplicitCalls :
    /\ LogLevelParser_process(logHist[i].entry).d["level"] # logHist[i].created
    /\ \E k \in 1 .. Len(Stored) : Stored[k] = logHist[i].entry

\* The statistics that folding the entries of hist, one after the other,
\* gives: one count per entry, per level and per pattern name.
LevelsOf(hist) == { hist[i].entry.level : i \in 1 .. Len(hist) }

PatternsOf(hist) ==
  UNION { { CountedPatterns(hist[i].entry)[k] : k \in 1 .. Len(CountedPatterns(hist[i].entry)) } :
          i \in 1 .. Len(hist) }

HasPattern(entry, name) ==
  \E k \in 1 .. Len(CountedPatterns(entry)) : CountedPatterns(entry)[k] = name

Folded(hist) ==
  [total_logs |-> Len(hist),
   by_level |-> [l \in LevelsOf(hist) |->
                   Cardinality({ i \in 1 .. Len(hist) : hist[i].entry.level = l })],
   by_pattern |-> [n \in PatternsOf(hist) |->
                     Cardinality({ i \in 1 .. Len(hist) : HasPattern(hist[i].entry, n) })]]

Quiescent == \A t \in Callers : lpc[t] \in {"idle", "none"}

\* C11: when no entry is in the pipeline, the statistics are the fold of the
\* entries that went through it: total_logs counts each entry once,
\* by_level counts it once under its final level, by_pattern once under
\* each of its pattern names, and there are no other counters.
C11_StatsAreFold ==
  Quiescent =>
    /\ stats.total_logs = Folded(logHist).total_logs
    /\ DOMAIN stats.by_level = LevelsOf(logHist)
    /\ \A l \in LevelsOf(logHist) : stats.by_level[l] = Folded(logHist).by_level[l]
    /\ DOMAIN stats.by_pattern = PatternsOf(logHist)
    /\ \A n \in PatternsOf(logHist) : stats.by_pattern[n] = Folded(logHist).by_pattern[n]

\* Every counter of d is a counter of e with a value at least as large.
CountersGrow(d, e) == \A k \in DOMAIN d : k \in DOMAIN e /\ e[k] >= d[k]

\* C12: no step lowers total_logs or a by_level or by_pattern counter.
C12_StatsNeverDecrease ==
  [][/\ stats'.total_logs >= stats.total_logs
     /\ CountersGrow(stats.by_level, stats'.by_level)
     /\ CountersGrow(stats.by_pattern, stats'.by_pattern)]_vars

\* A store call that finds the primary file larger than max_size.
RotationDue == log_file.exists /\ FileSize(log_file.lines) > max_size

\* A step that wrote an entry to the file backend.
Wrote == Len(fileHist') = Len(fileHist) + 1

\* The numbers of the backup files that exist.
ExistingBackups(bk) == { i \in BackupSlots : bk[i].exists }

\* C13: a store call that finds the primary file larger than max_size and
\* writes its entry leaves the whole former primary file as backup `.1` and
\* a primary file that holds the new entry and nothing else.
C13_RotationToBackup ==
  [][(RotationDue /\ Wrote)
       => /\ backups'[1] = log_file
          /\ log_file' = [exists |-> TRUE, lines |-> << ToJson(fileHist'[Len(fileHist')]) >>]]_vars

\* C14: a store call that finds the primary file larger than max_size moves
\* every existing backup `.i` that has room below backup_count to `.(i+1)`,
\* and after any step at most backup_count backup files exist.
C14_BackupsShiftAndBound ==
  [][/\ (RotationDue /\ Wrote)
          => \A i \in BackupSlots :
               (backups[i].exists /\ i + 1 <= backup_count) => backups'[i + 1] = backups[i]
     /\ Cardinality(ExistingBackups(backups')) <= backup_count]_vars

\* The lines of the primary file that json.loads accepts.
ValidLines == SelectSeq(log_file.lines, LAMBDA line : line.json)

\* C15: whatever the filters and the limit, retrieve returns as many entries
\* from the file as it would return from the same file with the malformed
\* lines taken out.
C15_MalformedLinesCostNothing ==
  \A f \in FilterSet, limit \in Limits :
    (log_file.exists /\ ReadError = "none")
      => Len(FileStorage_retrieve(f, limit)) = Len(ScanLines(ValidLines, f, limit))

\* The timestamps of the store calls whose entry was written.
WrittenAt == { fileHist[i].timestamp : i \in 1 .. Len(fileHist) }

\* C20: no store call has raised to its caller, whatever exception it hit;
\* retrieve does not raise, and returns nothing when the file is missing or
\* cannot be opened; a store call after a failed one still writes its entry
\* once the file can be written (every call either wrote or was swallowed).
C20_FailuresAreSwallowed ==
  /\ ~raisedOut
  /\ ~Propagates(ReadError)
  /\ \A f \in FilterSet, limit \in Limits :
       (~log_file.exists \/ denied) => FileStorage_retrieve(f, limit) = << >>
  /\ \A i \in 1 .. Len(swallowed) : swallowed[i][1] \notin WrittenAt
  /\ Len(swallowed) + Len(fileHist) = clock

\* A store call hit OSError, a later one wrote its entry, and the file is
\* now locked again with retrieve returning nothing.
C20_Witness ==
  /\ \E i \in 1 .. Len(swallowed) :
       /\ swallowed[i][2] = "OSError"
       /\ \E ts \in WrittenAt : ts > swallowed[i][1]
  /\ log_file.exists /\ denied
  /\ FileStorage_retrieve(NoFilters, MaxLimit) = << >>

\* Filters with no key, with one key, with several keys, with a level in
\* lower case and with a search text in upper case.
QueryFilters ==
    { NoFilters,
      [level |-> << "e", "r", "r", "o", "r" >>, search |-> << >>, file_path |-> ""],
      [level |-> << >>, search |-> << "F", "U", "L", "L" >>, file_path |-> ""],
      [level |-> INFO, search |-> << "d", "i", "s", "k" >>, file_path |-> ""],
      [level |-> ERROR, search |-> << "D", "I", "S", "K" >>, file_path |-> "a.log"] }

\* Each letter paired with the same letter of the other case.
CasePairs == { {LowerCase[i], UpperCase[i]} : i \in 1 .. Len(LowerCase) }

\* Two characters that differ at most in letter case.
SameLetter(a, b) == a = b \/ {a, b} \in CasePairs

\* text occurs in message, letter case ignored.
OccursIn(text, message) ==
  \E at \in 0 .. (Len(message) - Len(text)) :
    \A k \in 1 .. Len(text) : SameLetter(text[k], message[at + k])

\* The limits at the two ends of the range and the smallest one that lets
\* an entry through.
EdgeLimits == {0, 1, MaxLimit}

\* The entry satisfies every filter of f that is present and not empty.
Satisfies(entry, f) ==
  /\ f.level # << >> => entry.level = f.level
  /\ f.search # << >> => OccursIn(f.search, entry.message)
  /\ f.file_path # "" => entry.file_path = f.file_path

\* C16: every entry that retrieve returns, from the memory or from the file
\* backend, satisfies every active filter: its level is the filter's level
\* exactly, the search text occurs in its message whatever the letter case,
\* and its source path is the filter's path exactly.
C16_OnlyMatchingEntries ==
  \A f \in QueryFilters, limit \in EdgeLimits :
    LET fromMemory == MemoryStorage_retrieve(f, limit)
        fromFile == FileStorage_retrieve(f, limit)
    IN /\ \A i \in 1 .. Len(fromMemory) : Satisfies(fromMemory[i], f)
       /\ \A i \in 1 .. Len(fromFile) : Satisfies(fromFile[i], f)

\* Both backends hold an entry that a filter with three active keys lets
\* through and an entry that it keeps out, and the upper-case search text
\* finds the mixed-case message.
C16_Witness ==
  LET f == [level |-> ERROR, search |-> << "D", "I", "S", "K" >>, file_path |-> "a.log"]
  IN /\ Len(MemoryStorage_retrieve(f, MaxLimit)) >= 1
     /\ Len(MemoryStorage_retrieve(f, MaxLimit)) < Len(entries)
     /\ Len(FileStorage_retrieve(f, MaxLimit)) >= 1
     /\ Len(FileStorage_retrieve(f, MaxLimit)) < Len(FileStorage_retrieve(NoFilters, MaxLimit))

\* The entries of the memory backend that satisfy f, most recent first.
MatchingNewestFirst(f) ==
  SelectSeq(Reversed(entries), LAMBDA entry : Satisfies(entry, f))

\* C17: MemoryStorage.retrieve(f, limit) returns the first `limit` of the
\* entries that satisfy the active filters, taken most recent first, or all
\* of them when there are fewer than `limit`.
C17_MostRecentMatches ==
  \A f \in QueryFilters, limit \in Limits :
    LET all == MatchingNewestFirst(f)
        n == IF Len(all) < limit THEN Len(all) ELSE limit
    IN MemoryStorage_retrieve(f, limit) = SubSeq(all, 1, n)

\* The keyword arguments that APIHandler.handle_logs passes for ?limit=n,
\* and for ?level=...&limit=n.
LimitOnly(n) == [k \in {"limit"} |-> n]

LevelAndLimit(lv, n) == [k \in {"level", "limit"} |-> IF k = "level" THEN lv ELSE n]

\* retrieve of the backend in use.
Retrieve(filters, limit) ==
  IF storage = "memory" THEN MemoryStorage_retrieve(filters, limit)
                        ELSE FileStorage_retrieve(filters, limit)

\* C18: a limit given to get_logs reaches the backend's retrieve as its
\* limit: get_logs(limit=n) returns at most n entries, and they are the
\* ones retrieve returns for the same filters with limit n.
C18_LimitReachesRetrieve ==
  \A n \in 1 .. MaxLimit :
    /\ Len(get_logs(LimitOnly(n))) <= n
    /\ get_logs(LimitOnly(n)) = Retrieve(NoFilters, n)
    /\ \A lv \in {ERROR, DEBUG} :
         get_logs(LevelAndLimit(lv, n)) = Retrieve(FilterKeys(LevelAndLimit(lv, n)), n)

\* A watch() call has just returned or raised.
WatchReturned == Len(watchHist') = Len(watchHist) + 1

\* C19: watch(path) raises exactly when the path is neither an existing file
\* nor an existing directory, and a call that raises leaves the watch set,
\* the statistics and both storage backends as they were.
C19_InvalidPathRejected ==
  [][WatchReturned =>
       LET call == watchHist'[Len(watchHist')]
           exists == \/ (call.path \in Paths /\ fs[call.path].exists)
                     \/ call.path \in Dirs
       IN /\ call.raised <=> ~exists
          /\ call.raised =>
               /\ watched_files' = watched_files
               /\ stats' = stats
               /\ entries' = entries
               /\ log_file' = log_file
               /\ backups' = backups]_vars

\* After a log() call was stored and counted, one watch() call was rejected
\* and another one put a file into the watch set.
C19_Witness ==
  /\ stats.total_logs >= 1
  /\ logHist # << >>
  /\ \E i \in 1 .. Len(watchHist) : watchHist[i].raised
  /\ \E i \in 1 .. Len(watchHist) : ~watchHist[i].raised
  /\ watched_files # << >>

\* The strings that str() gives for the messages of TypeArgs.
ExpectedTexts ==
  { textMsg,
    << "1", "2", "3" >>,
    << "{", "'", "d", "i", "c", "t", "'", ":", " ", "'", "w", "a", "r", "n", "'", "}" >>,
    << >>,
    Unprintable }

\* How many entries with this timestamp the backends were handed.
TimesStored(ts) == Cardinality({ k \in 1 .. Len(Stored) : Stored[k].timestamp = ts })

\* C21: whatever the type of the message, a log() call does not raise: it
\* hands exactly one entry to the storage backend, the entry's message is
\* the string form of the message, and the call is counted once in
\* total_logs.
C21_AnyMessageIsLogged ==
  /\ \A i \in 1 .. Len(logHist) :
       /\ logHist[i].entry.message \in ExpectedTexts
       /\ TimesStored(logHist[i].entry.timestamp) = 1
  /\ Quiescent =>
       /\ Len(logHist) = clock
       /\ Len(Stored) = clock
       /\ stats.total_logs = clock

\* A number, a dict and None have been logged and the three calls have
\* returned.
C21_Witness ==
  /\ Quiescent
  /\ \E i \in 1 .. Len(Stored) : Stored[i].message = << "1", "2", "3" >>
  /\ \E i \in 1 .. Len(Stored) : Stored[i].message = << >>
  /\ \E i \in 1 .. Len(Stored) : Len(Stored[i].message) > 0 /\ Stored[i].message[1] = "{"

\* The bracketed words of s: << i, j >> with "[" at i, "]" at j and one or
\* more word characters, and nothing else, between them.
BracketedWords(s) ==
  { ij \in (1 .. Len(s)) \X (1 .. Len(s)) :
      /\ ij[2] > ij[1] + 1
      /\ s[ij[1]] = "[" /\ s[ij[2]] = "]"
      /\ \A k \in (ij[1] + 1) .. (ij[2] - 1) : IsWord(s[k]) }

\* The lengths n such that s begins with n word characters and a colon.
LeadingWords(s) ==
  { n \in 1 .. (Len(s) - 1) : s[n + 1] = ":" /\ \A k \in 1 .. n : IsWord(s[k]) }

\* The level keywords in s, as << position, keyword >>, letter case ignored.
Keywords(s) ==
  { iw \in (1 .. Len(s)) \X { LevelWords[k] : k \in 1 .. Len(LevelWords) } :
      /\ iw[1] + Len(iw[2]) - 1 <= Len(s)
      /\ \A k \in 1 .. Len(iw[2]) : SameLetter(s[iw[1] + k - 1], iw[2][k]) }

\* The level that the three recognizers, tried in this order, give for s.
FirstRecognized(s) ==
  IF BracketedWords(s) # {}
    THEN LET ij == CHOOSE x \in BracketedWords(s) : \A y \in BracketedWords(s) : x[1] <= y[1]
         IN upper(SubSeq(s, ij[1] + 1, ij[2] - 1))
  ELSE IF LeadingWords(s) # {}
    THEN LET n == CHOOSE x \in LeadingWords(s) : TRUE IN upper(SubSeq(s, 1, n))
  ELSE IF Keywords(s) # {}
    THEN LET iw == CHOOSE x \in Keywords(s) : \A y \in Keywords(s) : x[1] <= y[1] IN iw[2]
  ELSE INFO

\* An entry as the watcher and log() create it, with this message.
Fresh(m) == LogEntry(0, INFO, m, "None", NoExtra)

\* What the parser returns, and what the three recognizers in their order
\* give, for each of the messages.
ParsedFrom == [m \in SampleMessages |-> LogLevelParser_process(Fresh(m)).d["level"]]

RecognizedIn == [m \in SampleMessages |-> FirstRecognized(m)]

\* C22: the level parser gives the upper-cased text of the first of the
\* bracketed, the leading and the bare-keyword recognizer that matches, and
\* INFO when none does; "[ERROR] disk full" gives ERROR, "WARNING: low
\* memory" gives WARNING and "nothing special here" gives INFO.
C22_FirstRecognizerWins ==
  \A i \in 1 .. Len(logHist) :
    LET e == logHist[i].entry
        parsed == ParsedFrom[e.message]
    IN /\ parsed = RecognizedIn[e.message]
       /\ e.level = parsed
       /\ e.message = diskFullMsg => parsed = ERROR
       /\ e.message = lowMemoryMsg => parsed = WARNING
       /\ e.message = nothingMsg => parsed = INFO

\* Messages on which two recognizers disagree, and the three messages of the
\* claim, have been parsed.
C22_Witness ==
  /\ \E i \in 1 .. Len(logHist) : logHist[i].entry.message = bracketAndWordMsg
  /\ \E i \in 1 .. Len(logHist) : logHist[i].entry.message \in {prefixAndBracketMsg, prefixAndWordMsg}
  /\ \E i \in 1 .. Len(logHist) :
       logHist[i].entry.message \in {diskFullMsg, lowMemoryMsg, nothingMsg}

\* The names of the patterns as a set.
NameSet(names) == { names[k] : k \in 1 .. Len(names) }

\* What the detector returns, and the names of the matchers that match, for
\* each of the messages.
DetectedIn == [m \in SampleMessages |-> PatternDetector_process(Fresh(m))]

MatchingIn == [m \in SampleMessages |-> { n \in NameSet(PatternNames) : Detects(n, m) }]

\* C23: the pattern detector returns the names of exactly the matchers that
\* match the message, and nothing when none matches; the engine stores that
\* list as the entry's extra_data["patterns"]; the connection message has
\* both ip_address and performance.
C23_ExactlyMatchingPatterns ==
  \A i \in 1 .. Len(Stored) :
    LET e == Stored[i]
        matching == MatchingIn[e.message]
        result == DetectedIn[e.message]
    IN /\ matching = {} => Falsy(result) /\ Falsy(e.extra_data)
       /\ matching # {} =>
            /\ NameSet(result.d["patterns"]) = matching
            /\ Len(result.d["patterns"]) = Cardinality(matching)
            /\ e.extra_data.d["patterns"] = result.d["patterns"]
       /\ e.message = connectionMsg =>
            {"ip_address", "performance"} \subseteq NameSet(e.extra_data.d["patterns"])

\* The connection message and a message that no matcher matches are both in
\* the storage.
C23_Witness ==
  /\ \E i \in 1 .. Len(Stored) : Stored[i].message = connectionMsg
  /\ \E i \in 1 .. Len(Stored) : MatchingIn[Stored[i].message] = {}

\* The caller's store() call returns in this step.
Returns(t) == lpc[t] = "store" /\ lpc'[t] = "idle"

\* Exactly the memory backend, or exactly the file backend, receives e.
OnlyMemoryGets(e) ==
  /\ memHist' = Append(memHist, e)
  /\ UNCHANGED << fileHist, log_file, backups >>

OnlyFileGets(e) ==
  /\ fileHist' = Append(fileHist, e)
  /\ UNCHANGED << memHist, entries >>

\* C24: a set_storage call moves and copies nothing between the backends;
\* every entry is stored in exactly one backend; and an entry whose log()
\* call saw no set_storage since it began is stored in the active backend,
\* the one the latest set_storage named, and in no other.
C24_OneActiveBackend ==
  [][/\ storage' # storage =>
          UNCHANGED << entries, log_file, backups, memHist, fileHist >>
     /\ \A t \in Callers :
          Returns(t) =>
            /\ OnlyMemoryGets(entry_[t]) \/ OnlyFileGets(entry_[t])
            /\ ~(OnlyMemoryGets(entry_[t]) /\ OnlyFileGets(entry_[t]))
            /\ (stable[t] /\ storage = "memory") => OnlyMemoryGets(entry_[t])
            /\ (stable[t] /\ storage = "file") => OnlyFileGets(entry_[t])]_vars

\* Both backends hold an entry, the engine has been switched back to the one
\* it began with, and an entry that was in the pipeline during a switch has
\* been stored.
C24_Witness ==
  /\ memHist # << >>
  /\ fileHist # << >>
  /\ storage = "memory"
  /\ Len(entries) = Len(memHist)
  /\ \E i \in 1 .. Len(logHist) : logHist[i].storage = "file"

\* get_logs() with no keyword argument.
NoKwargs == << >>

\* C25: right after the clear operation total_logs is 0, by_level and
\* by_pattern are empty and get_logs() returns no entry, with the memory
\* backend and with the file backend.
C25_ClearEmptiesEverything ==
  [][handle_clear =>
       /\ stats'.total_logs = 0
       /\ DOMAIN stats'.by_level = {}
       /\ DOMAIN stats'.by_pattern = {}
       /\ get_logs(NoKwargs)' = << >>]_vars

\* The position up to which thread t has read the file it is at: the end
\* of the last line it read, or the offset it started from when it read
\* nothing.
ReadEnd(t) ==
  IF new_lines[t] = << >> THEN files_to_check[t][idx[t]].pos
  ELSE new_lines[t][Len(new_lines[t])].pos + Len(new_lines[t][Len(new_lines[t])].text)

\* C26: when a poll iteration records the new offset of a file, that offset
\* is the position up to which the file was read and delivered, also when
\* the file grew between the size stat and the read.
C26_OffsetIsReadEnd ==
  [][\A t \in Threads :
       (pc[t] = "update" /\ pc'[t] # "update") =>
         PosOf(watched_files', files_to_check[t][idx[t]].path) = ReadEnd(t)]_vars

\* A processor whose process() raises is registered.
HasFaulty == \E k \in 1 .. Len(processors) : processors[k] = "Faulty"

\* C27: with a processor that raises, every log() call that has returned
\* still has its entry in the storage backend, once, and counted in
\* total_logs, and the entries of later calls are stored too.
C27_FaultyProcessorIsIsolated ==
  (HasFaulty /\ Quiescent) =>
    /\ Len(Stored) = clock
    /\ stats.total_logs = clock
    /\ \A ts \in 0 .. (clock - 1) : TimesStored(ts) = 1

\* The file that thread t is at.
FileOf(t) == files_to_check[t][idx[t]].path

\* Thread t leaves the file it is at without a new offset: the watch set is
\* as it was, and the thread is at the next file of its snapshot, or at the
\* `while` test when that was the last one.
SkipsFile(t) ==
  /\ watched_files' = watched_files
  /\ IF idx[t] < Len(files_to_check[t])
       THEN pc'[t] = "stat" /\ idx'[t] = idx[t] + 1 /\ files_to_check'[t] = files_to_check[t]
       ELSE pc'[t] = "while"

\* C28: a poll loop ends only when the running flag is cleared.  A file
\* that is gone at the stat, or that cannot be opened at the read, is left
\* with its offset unchanged and the loop goes on with the next file of the
\* same iteration; a handler that raises leaves the loop in the dispatch;
\* and with the flag set every `while` test starts a new iteration.
C28_OnlyStopEndsTheLoop ==
  [][\A t \in Threads :
       /\ (pc[t] # "none" /\ pc'[t] = "none") => ~running
       /\ (pc[t] = "while" /\ pc'[t] # "while" /\ running) => pc'[t] \in {"snapshot", "stat"}
       /\ (pc[t] = "stat" /\ pc'[t] # "stat" /\ ~fs[FileOf(t)].exists) => SkipsFile(t)
       /\ (pc[t] = "read" /\ pc'[t] # "read"
             /\ (~fs[FileOf(t)].exists \/ ~fs[FileOf(t)].readable)) => SkipsFile(t)
       /\ (pc[t] = "dispatch" /\ Len(calls') > Len(calls) /\ calls'[Len(calls')].raised)
            => pc'[t] = "dispatch"]_vars

\* The first file of the snapshot has grown and cannot be opened, its
\* offset is the one it had, and the loop, not stopped, has read the second
\* file in the same iteration.
C28_Witness ==
  \E t \in Threads :
    /\ running
    /\ pc[t] = "dispatch"
    /\ idx[t] = 2
    /\ LET first == files_to_check[t][1]
       IN /\ fs[first.path].exists
          /\ ~fs[first.path].readable
          /\ Len(fs[first.path].data) > first.pos
          /\ PosOf(watched_files, first.path) = first.pos
    /\ new_lines[t] # << >>

\* Every handler registered at the read of thread t has been invoked for
\* every non-blank line of that read.
AllDelivered(t) ==
  \A l \in NonBlank(new_lines[t]) : \A h \in 1 .. new_lines[t][l].nh0 :
    \E i \in Batch(t, rdmark[t]) : calls[i].l = l /\ calls[i].h = h

\* C29: with the running flag cleared and no start() after it, a poll loop
\* still delivers the lines it has read before it leaves them, begins no
\* new iteration, exits at its next `while` test, and invokes no handler
\* once it has exited.
C29_StopIsCooperative ==
  [][\A t \in Threads :
       /\ (~running /\ pc[t] = "dispatch" /\ pc'[t] = "update") => AllDelivered(t)
       /\ (~running /\ pc[t] = "while" /\ pc'[t] # "while") => pc'[t] = "none"
       /\ (~running /\ pc[t] # "snapshot") => pc'[t] # "snapshot"
       /\ pc[t] = "none" =>
            /\ pc'[t] = "none"
            /\ Len(calls') > Len(calls) => calls'[Len(calls')].t # t]_vars

\* stop() came back from its join while the loop was still in an iteration;
\* the loop has delivered lines and has exited since.
C29_Witness ==
  /\ ~running
  /\ lastJoin = "timeout"
  /\ thread_ # 0
  /\ pc[thread_] = "none"
  /\ \E i \in 1 .. Len(calls) : calls[i].t = thread_

\* C30: a retrieve that runs while a store is in progress returns what the
\* primary file held before that store or after it, never what it holds
\* half-way through a rotation: its result is one of the results a retrieve
\* excluded by the backend's lock could have returned.
C30_RetrieveSeesNoHalfRotation == rpc = "done" => returned \in atomic

\* No lower-case letter occurs in s: s.upper() == s.
IsUpperCase(s) == \A i \in 1 .. Len(s) : s[i] \notin DOMAIN UpperOf

WARN == << "W", "A", "R", "N" >>

\* C31: the level of every entry handed to a storage backend, and every
\* key of by_level, is upper-case, whatever the case of the level given to
\* log() or of the level text found in the message.
C31_LevelIsUpperCase ==
  /\ \A i \in 1 .. Len(Stored) : IsUpperCase(Stored[i].level)
  /\ \A lv \in DOMAIN stats.by_level : IsUpperCase(lv)
  /\ \A i \in 1 .. Len(logHist) : IsUpperCase(logHist[i].counted)

\* log("warn", ...) and the watcher line "[warn] ERROR: x" have both been
\* stored and counted under WARN.
C31_Witness ==
  /\ Quiescent
  /\ \E i \in 1 .. Len(Stored) : Stored[i].file_path = "None" /\ Stored[i].level = WARN
  /\ \E i \in 1 .. Len(Stored) :
       /\ Stored[i].file_path = "a.log"
       /\ Stored[i].message = bracketAndWordMsg
       /\ Stored[i].level = WARN
  /\ WARN \in DOMAIN stats.by_level /\ stats.by_level[WARN] = 2

\* Did a processor of the default chain return data to put into the extra
\* mapping of an entry with this message?
Enriched(m) == ~Falsy(DetectedIn[m])

\* C32: a stored entry has an extra mapping only if a processor contributed
\* data for it.
C32_ExtraOnlyFromProcessors ==
  \A i \in 1 .. Len(Stored) : ~Stored[i].extra_data.none => Enriched(Stored[i].message)

\* The log records of the entries made from watcher lines.
FromWatcher == { i \in 1 .. Len(logHist) : logHist[i].entry.file_path \in Paths }

\* C33: an entry made from a watcher line is created with level INFO, has
\* the line as its message and the line's file as its source path; it is
\* counted and stored, once, under the level the level parser finds in the
\* line.
C33_WatcherLineIsLogged ==
  \A i \in FromWatcher :
    /\ logHist[i].created = INFO
    /\ logHist[i].entry.message \in FeedLines(logHist[i].entry.file_path)
    /\ logHist[i].entry.level = ParsedFrom[logHist[i].entry.message]
    /\ logHist[i].counted = logHist[i].entry.level
    /\ logHist[i].counted \in DOMAIN stats.by_level
    /\ TimesStored(logHist[i].entry.timestamp) = 1

\* The line "Error: [debug]" of b.log has been stored with level DEBUG.
C33_Witness ==
  \E i \in FromWatcher :
    /\ logHist[i].entry.file_path = "b.log"
    /\ logHist[i].entry.message = prefixAndBracketMsg
    /\ logHist[i].entry.level = DEBUG
    /\ \E k \in 1 .. Len(Stored) : Stored[k] = logHist[i].entry

\* C34: retrieve of either backend returns at most `limit` entries, for
\* every limit from 0 on.
C34_AtMostLimit ==
  \A f \in FilterSet, n \in Limits :
    /\ Len(MemoryStorage_retrieve(f, n)) <= n
    /\ Len(FileStorage_retrieve(f, n)) <= n

\* C35: with the same entries stored in both backends, retrieve of the file
\* backend returns what retrieve of the memory backend returns, for the
\* same filters and limit.
C35_FileAnswersLikeMemory ==
  \A f \in FilterSet, n \in Limits :
    FileStorage_retrieve(f, n) = MemoryStorage_retrieve(f, n)

\* C36: every key of by_pattern is one of the seven names of the pattern
\* detector, and the `patterns` field of a stored entry holds what the
\* detector returned for the entry's message.
C36_PatternsAreDetectorOutput ==
  /\ DOMAIN stats.by_pattern \subseteq NameSet(PatternNames)
  /\ \A i \in 1 .. Len(Stored) :
       (~Stored[i].extra_data.none /\ "patterns" \in DOMAIN Stored[i].extra_data.d) =>
         /\ Enriched(Stored[i].message)
         /\ Stored[i].extra_data.d["patterns"] = DetectedIn[Stored[i].message].d["patterns"]

\* The sum of the counters of d.
RECURSIVE SumOf(_)
SumOf(d) ==
  IF DOMAIN d = {} THEN 0
  ELSE LET k == CHOOSE x \in DOMAIN d : TRUE
       IN d[k] + SumOf([x \in DOMAIN d \ {k} |-> d[x]])

\* C37: whenever no entry is in the pipeline, total_logs is the sum of the
\* by_level counters.
C37_TotalIsSumOfLevels == Quiescent => stats.total_logs = SumOf(stats.by_level)

\* C40: the level the level parser gives to an entry made from a watcher
\* line, and so the by_level key the entry is counted under, is one of
\* DEBUG, INFO, WARNING, ERROR, CRITICAL and TRACE.
C40_ParsedLevelIsKnown ==
  \A i \in FromWatcher :
    /\ logHist[i].entry.level \in NameSet(LevelWords)
    /\ logHist[i].counted \in NameSet(LevelWords)

\* C38: the offset of a watched file that was never truncated never
\* decreases.
C38_OffsetNeverDecreases ==
  [][\A p \in Paths :
       (p \in Watched(watched_files) /\ gen'[p] = 0) =>
         PosOf(watched_files', p) >= PosOf(watched_files, p)]_vars

\* What an unfiltered retrieve of the file backend returns.
AllOfFile == FileStorage_retrieve(NoFilters, DefaultLimit)

\* The entries in the lines of a file.
EntriesIn(file) == { FromJson(file.lines[j]) : j \in { i \in 1 .. Len(file.lines) : file.lines[i].json } }

\* This store renamed the primary file to `.1`.
MovedToBackup == RotationDue /\ backups'[1] = log_file

\* C39: no entry that lies in a numbered backup is returned by retrieve, and
\* right after a store that moved the primary file to `.1` and wrote its
\* entry, an unfiltered retrieve returns that entry and nothing else.
C39_OnlyThePrimaryFile ==
  [][/\ \A k \in BackupSlots :
          EntriesIn(backups'[k]) \cap { AllOfFile'[j] : j \in 1 .. Len(AllOfFile') } = {}
     /\ (MovedToBackup /\ Wrote) => AllOfFile' = << fileHist'[Len(fileHist')] >>]_vars

\* A rotation has moved two entries into `.1` and the primary file holds
\* the one entry written after it, which is what retrieve returns.
C39_Witness ==
  /\ backups[1].exists
  /\ Len(backups[1].lines) = 2
  /\ Len(fileHist) = 3
  /\ AllOfFile = << fileHist[3] >>

====
